---- MODULE Spec2Model ----
(***************************************************************************)
(* A model of seqalign (src/seqalign/seqalign.py): the SequenceAlignment   *)
(* object, its transform operations, the files it writes, merge, and       *)
(* get_median_read_length.                                                 *)
(*                                                                         *)
(* A BAM buffer (Python bytes) is modelled by the sequence of reads it     *)
(* holds; a read is [pos, mapq, flag].  An external tool is modelled by    *)
(* the output it produces on a buffer, and one run of it (subprocess.Popen *)
(* followed by communicate) by a choice between exit status 0 with that    *)
(* output and a non-zero exit status with an empty or truncated output:    *)
(* the code never reads the exit status.                                   *)
(*                                                                         *)
(* A path is modelled by its dot-separated components, <<"a", "bam">> for  *)
(* "a.bam", so that '{}.bai'.format(path) and path.split('.') are          *)
(* computed, not assumed.                                                  *)
(***************************************************************************)
EXTENDS Integers, Sequences, FiniteSets, TLC

VARIABLES
    objs,           \* the SequenceAlignment objects: object id -> fields
    disk,           \* the file system: path -> [exists, data]
    last,           \* what the last call did: [op, obj, err, stages]
    sorted_before,  \* history: object id -> a samtools_sort call has returned
    replaced_since_sort,
                    \* history: object id -> since the last samtools_sort a
                    \* caller's deduplicator or samtools fixmate has
                    \* replaced the buffer
    nops,           \* number of calls made (used by SpecMerge only)
    mrl,            \* get_median_read_length: [phase, files, limit, result]
    os              \* the processes, pipes and FIFOs of a running pipeline

vars ==
    <<objs, disk, last, sorted_before, replaced_since_sort, nops, mrl, os>>

----------------------------------------------------------------------------
(* Bounds of the model *)

MaxReads == 3
MaxObjs == 3
MaxOps == 3
MaxProcesses == 2
MaxMemoryLimit == 6
MaxSample == 5
MaxName == 3

(* Program constants *)

MemoryFloor == 5
DefaultMappingQuality == 10
FlagDuplicate == 1024
FlagNotPrimary == 256

----------------------------------------------------------------------------
(* Python values *)

None == [t |-> "None"]
PyStr(s) == [t |-> "str", v |-> s]
PyBytes(b) == [t |-> "bytes", v |-> b]
PyInt(n) == [t |-> "int", v |-> n]

\* a number n / d returned by a division: an int (d = 1) or a float
Number(n, d) == [num |-> n, den |-> d]

\* a test for None only, in place of bool(x)
Truthy_not_none(x) == x.t # "None"

\* bool(x) for None, bytes and str
Truthy(x) == x.t # "None" /\ x.v # <<>>

\* '{}'.format(x) for None and for a path held as a str
Format(x) == IF x.t = "None" THEN <<"None">> ELSE x.v

\* '{}.bai'.format(x)
BaiPath(x) == Format(x) \o <<"bai">>

----------------------------------------------------------------------------
(* Buffers and the external tools *)

Reads ==
    { [pos |-> 2, mapq |-> 30, flag |-> 0],
      [pos |-> 1, mapq |-> 15, flag |-> FlagDuplicate] }

InputBams == UNION { [1..n -> Reads] : n \in 0..MaxReads }

MappingQualities == {DefaultMappingQuality, 20}

HasBit(flag, bit) == (flag \div bit) % 2 = 1

\* samtools view -q q -f (bits of req) -F (bits of excl)
ViewTool(b, q, req, excl) ==
    SelectSeq(b, LAMBDA r :
        /\ r.mapq >= q
        /\ \A bit \in req : HasBit(r.flag, bit)
        /\ \A bit \in excl : ~HasBit(r.flag, bit))

RECURSIVE Insert(_, _)
Insert(r, s) ==
    IF s = <<>> THEN <<r>>
    ELSE IF r.pos < Head(s).pos THEN <<r>> \o s
    ELSE <<Head(s)>> \o Insert(r, Tail(s))

RECURSIVE SortTool(_)
\* samtools sort: by position, reads at one position in input order
SortTool(b) ==
    IF b = <<>> THEN <<>>
    ELSE Insert(b[Len(b)], SortTool(SubSeq(b, 1, Len(b) - 1)))

\* samtools index: a header (the number of reads) and one offset entry per read
IndexTool(b) == <<Len(b)>> \o [i \in 1..Len(b) |-> b[i].pos]

\* bedtools intersect -abam stdin -b bed -v: the reads outside the regions
BedFiles == { <<"blacklist", "bed">> }
BedRegion(bed) == {1}
IntersectVTool(b, bed) == SelectSeq(b, LAMBDA r : r.pos \notin BedRegion(bed))

\* samtools fixmate -r: removes secondary and unmapped reads
FixmateTool(b) == SelectSeq(b, LAMBDA r : ~HasBit(r.flag, FlagNotPrimary) /\ ~HasBit(r.flag, 4))

Prefixes(out) == { SubSeq(out, 1, k) : k \in 0..(Len(out) - 1) }

\* One run of an external process whose output on success is `out`:
\* Popen(...).communicate(...)[0] returns whatever reached stdout.
Stage(out) ==
    { [exit |-> 0, out |-> out] }
        \cup { [exit |-> 1, out |-> t] : t \in Prefixes(out) \cup {<<>>} }

----------------------------------------------------------------------------
(* The file system *)

WritePaths == { <<"a", "bam">>, <<"b", "txt">> }
InputPaths == { <<"in", "bam">> }
\* raw read files, and the lengths of the reads each of them holds
ReadsPaths ==
    { <<"r1", "fq">>, <<"r2", "fq", "gz">>, <<"long", "fa">>, <<"e", "fq">> }
RawReads(p) ==
    IF p = <<"r1", "fq">> THEN <<70, 70>>
    ELSE IF p = <<"r2", "fq", "gz">> THEN <<70>>
    ELSE IF p = <<"long", "fa">> THEN <<71, 72>>
    ELSE <<>>

\* a path to raw reads that names no file
MissingReads == <<"gone", "fq">>

\* the names tempfile.NamedTemporaryFile can give out
TempNames == { <<"tmp1">>, <<"tmp2">> }
Files == WritePaths \cup InputPaths \cup { p \o <<"bai">> : p \in WritePaths }
            \cup { <<"None", "bai">> }
            \cup TempNames \cup { t \o <<"bai">> : t \in TempNames }
            \cup ReadsPaths \cup {MissingReads}

NoFile == [exists |-> FALSE, data |-> <<>>]
File(data) == [exists |-> TRUE, data |-> data]

IsFile(d, p) == p \in DOMAIN d /\ d[p].exists

\* os.remove(path): the disk after it, and the error it raises
os_remove(d, p) ==
    IF IsFile(d, p)
    THEN [disk |-> [d EXCEPT ![p] = NoFile], err |-> "none"]
    ELSE [disk |-> d, err |-> "FileNotFoundError"]

\* clean_up without the os.path.isfile guard
clean_up_unguarded(d, path) ==
    IF Truthy(path) THEN os_remove(d, path.v) ELSE [disk |-> d, err |-> "none"]

\* SequenceAlignment.clean_up
clean_up(d, path) ==
    IF (IF Truthy(path) THEN IsFile(d, path.v) ELSE FALSE)
    THEN os_remove(d, path.v)
    ELSE [disk |-> d, err |-> "none"]

----------------------------------------------------------------------------
(* SequenceAlignment *)

ObjIds == 1..MaxObjs
NoObj == [t |-> "NoObj"]
Alive(i) == objs[i] # NoObj

\* the record of a call: the method, the object, the exception raised (or
\* "none"), the external processes run with their exit statuses, and the
\* path or input the call was given (None when it takes none)
Called(op, i, err, stages, arg) ==
    [op |-> op, obj |-> i, err |-> err, stages |-> stages, arg |-> arg]
Done(op, i, stages) == Called(op, i, "none", stages, None)
Raised(op, i, err, stages) == Called(op, i, err, stages, None)

Ran(tool, run) == [tool |-> tool, exit |-> run.exit]

\* A call that raises before it changes anything
Raise(op, i, err) ==
    /\ last' = Raised(op, i, err, <<>>)
    /\ UNCHANGED <<objs, disk, sorted_before, replaced_since_sort>>

Max(x, y) == IF x >= y THEN x ELSE y
Min(x, y) == IF x <= y THEN x ELSE y

\* ---- get_median_read_length: the computation ----

\* itertools.islice(records, number_of_reads)
islice(file, number_of_reads) ==
    SubSeq(file, 1, Min(number_of_reads, Len(file)))

RECURSIVE Count(_, _)
\* the histogram after the try/except of the loop over the records
Count(histogram, sample) ==
    IF sample = <<>> THEN histogram
    ELSE LET l == Head(sample)
         IN  Count(IF l \in DOMAIN histogram
                   THEN [histogram EXCEPT ![l] = @ + 1]
                   ELSE histogram @@ (l :> 1),
                   Tail(sample))

RECURSIVE SortedKeys(_)
\* the lengths of sorted(histogram.items())
SortedKeys(S) ==
    IF S = {} THEN <<>>
    ELSE LET m == CHOOSE x \in S : \A y \in S : x <= y
         IN  <<m>> \o SortedKeys(S \ {m})

RECURSIVE Sum(_, _)
Sum(histogram, S) ==
    IF S = {} THEN 0
    ELSE LET x == CHOOSE x \in S : TRUE
         IN  histogram[x] + Sum(histogram, S \ {x})


RECURSIVE Scan(_, _, _, _, _)
\* the for loop over sorted(histogram.items()), from its k-th item
Scan(histogram, read_lengths, k, cumulative_count, total_reads) ==
    IF k > Len(read_lengths) THEN Number(0, 0)      \* median never bound
    ELSE LET length == read_lengths[k]
             c == cumulative_count + histogram[length]
         IN  IF 2 * c > total_reads THEN Number(length, 1)
             ELSE IF 2 * c = total_reads
             THEN IF k + 1 > Len(read_lengths)
                  THEN Number(0, 0)                  \* IndexError
                  ELSE Number(length + read_lengths[k + 1], 2)
             ELSE Scan(histogram, read_lengths, k + 1, c, total_reads)

\* the median of one pass of the loop over the files
MedianOfHistogram(histogram) ==
    Scan(histogram, SortedKeys(DOMAIN histogram), 1, 0,
         Sum(histogram, DOMAIN histogram))

\* file_format_from_extension
file_format_from_extension(p) ==
    LET ext == p[Len(p)]
        ext2 == IF Len(p) >= 2 THEN p[Len(p) - 1] ELSE "IndexError"
    IN  IF ext \in {"fasta", "fa"} \/ (ext = "gz" /\ ext2 \in {"fasta", "fa"})
            THEN "fasta"
        ELSE IF ext = "gz" /\ Len(p) < 2 THEN "IndexError"
        ELSE IF ext \in {"fastq", "fq", "fq1", "fq2"}
                \/ (ext = "gz" /\ ext2 \in {"fastq", "fq", "fq1", "fq2"})
            THEN "fastq"
        ELSE IF ext \in {"sam", "bam"} THEN ext
        ELSE "FileExtensionError"

\* SequenceAlignment.__init__ up to parse_input: the fields of a new object
NewObj(bam, mapping_quality, dedupper, processes, log) ==
    [ bam |-> bam,
      index |-> None,
      mapping_quality |-> mapping_quality,
      bam_file_path |-> None,
      cleans_up_bam |-> FALSE,
      is_sorted |-> FALSE,
      dedupper |-> dedupper,
      processes |-> processes,
      log |-> log ]

Dedduppers == {"None", "RemoveDuplicates"}

\* BWA(algorithm_switch_bp=70)
DefaultSwitchBp == 70

\* x <= t for a Number x (an int or a float with denominator 2)
NumberLeq(x, t) == x.num <= t * x.den

\* BWA(max_reads_for_length_check=int(1e6))
MaxReadsForLengthCheck == 1000000

RECURSIVE MrlLoop(_, _, _, _, _, _)
\* get_median_read_length: the loop over the files paths[k..] of the disk d
MrlLoop(d, paths, number_of_reads, k, histogram, median) ==
    IF k > Len(paths) THEN [err |-> "none", median |-> median]
    ELSE IF ~IsFile(d, paths[k])
    THEN [err |-> "FileNotFoundError", median |-> median]
    ELSE LET h == Count(histogram, islice(d[paths[k]].data, number_of_reads))
         IN  IF DOMAIN h = {} THEN [err |-> "Exception", median |-> median]
             ELSE MrlLoop(d, paths, number_of_reads, k + 1, h,
                          MedianOfHistogram(h))

\* get_median_read_length(raw_reads_paths, number_of_reads) on the disk d
get_median_read_length(d, paths, number_of_reads) ==
    LET formats == [k \in 1..Len(paths) |->
                        file_format_from_extension(paths[k])]
    IN  IF \E k \in 1..Len(paths) :
                formats[k] \in {"FileExtensionError", "IndexError"}
        THEN LET bad == { k \in 1..Len(paths) :
                            formats[k] \in {"FileExtensionError", "IndexError"} }
                 first == CHOOSE k \in bad : \A j \in bad : k <= j
             IN  [err |-> formats[first], median |-> Number(0, 0)]
        ELSE MrlLoop(d, paths, number_of_reads, 1, <<>>, Number(0, 0))

\* the alignment of one read: reads longer than 70 map well, on chrM
AlignedRead(length) ==
    [pos |-> IF length > 70 THEN 2 ELSE 1,
     mapq |-> IF length > 70 THEN 30 ELSE 15,
     flag |-> 0]

RECURSIVE AlignTool(_, _)
\* bwa on the raw read files: one alignment per read, in file order
AlignTool(d, paths) ==
    IF paths = <<>> THEN <<>>
    ELSE [k \in 1..Len(d[Head(paths)].data) |->
                AlignedRead(d[Head(paths)].data[k])]
            \o AlignTool(d, Tail(paths))

\* BWA()(sequence_alignment, temp_dir=...): how the call can end
BwaRuns(d, paths, mapping_quality) ==
    LET m == get_median_read_length(d, paths, MaxReadsForLengthCheck)
    IN  IF m.err # "none"
        THEN { [err |-> m.err, exit |-> -1, returned |-> <<>>] }
        ELSE UNION { { [err |-> "none", exit |-> r2.exit, returned |-> r2.out] :
                        r2 \in Stage(ViewTool(r1.out, mapping_quality,
                                              {}, {})) } :
                     r1 \in Stage(AlignTool(d, paths)) }

\* the aligners a caller can pass; None stands for the default, BWA()
Aligners == {"None", "BWA", "Bowtie2"}

\* align_reads: self.aligner(self, temp_dir=self.temp_dir).  Bowtie2.__call__
\* has no temp_dir parameter.
AlignerRuns(aligner, d, paths, mapping_quality) ==
    IF aligner = "Bowtie2"
    THEN { [err |-> "TypeError", exit |-> -1, returned |-> <<>>] }
    ELSE BwaRuns(d, paths, mapping_quality)

\* parse_input without the test of the length of a tuple or list
ValidPair_any(input) == TRUE

\* parse_input: a tuple or list must have length 2
ValidPair(input) == Len(input.v) = 2

\* a creation that failed: no object comes to be
NotCreated(i, err, stages, input) ==
    /\ last' = Called("__init__", i, err, stages, input)
    /\ UNCHANGED <<objs, sorted_before, replaced_since_sort>>

\* a creation that succeeded
Created(i, obj, stages, input) ==
    /\ objs' = [objs EXCEPT ![i] = obj]
    /\ sorted_before' = [sorted_before EXCEPT ![i] = FALSE]
    /\ replaced_since_sort' = [replaced_since_sort EXCEPT ![i] = FALSE]
    /\ last' = Called("__init__", i, "none", stages, input)

\* BWA.__call__ with the default algorithm and algorithm_switch_bp: the
\* strategy chosen for raw reads whose median length could be computed
BwaAlgorithm(d, paths) ==
    IF NumberLeq(get_median_read_length(d, paths, MaxReadsForLengthCheck).median,
                 DefaultSwitchBp)
    THEN "aln" ELSE "mem"

\* bwa_aln: the -t of each bwa aln.  For a pair of files it is
\* math.floor(processes / 2), for one file processes.
AlnThreads(raw_reads_path, processes) ==
    IF raw_reads_path.t # "str" THEN processes \div 2 ELSE processes

\* parse_input on raw reads: align_reads
AlignReads(i, input, paths, mapping_quality, aligner, dedupper, processes, log) ==
    LET a == IF aligner = "None" THEN "BWA" ELSE aligner
    IN  \E r \in AlignerRuns(aligner, disk, paths, mapping_quality) :
            IF r.err # "none"
            THEN NotCreated(i, r.err, <<[tool |-> a, exit |-> r.exit]>>, input)
            ELSE Created(i, NewObj(r.returned, mapping_quality, dedupper,
                                   processes, log),
                         <<[tool |-> a, exit |-> r.exit,
                            returned |-> r.returned,
                            algorithm |-> BwaAlgorithm(disk, paths),
                            threads |->
                                IF BwaAlgorithm(disk, paths) = "aln"
                                THEN AlnThreads(input, processes)
                                ELSE processes]>>, input)

\* SequenceAlignment(input_file, mapping_quality, aligner, dedupper,
\* processes, log): __init__ and parse_input.  last.arg is the input.
CreateWith(i, input, mapping_quality, aligner, dedupper, processes, log) ==
    /\ IF input.t \notin {"bytes", "tuple", "list", "str"}
       THEN NotCreated(i, "TypeError", <<>>, None)
       ELSE IF input.t = "bytes"
       THEN Created(i, NewObj(input.v, mapping_quality, dedupper, processes,
                              log), <<>>, None)
       ELSE IF input.t \in {"tuple", "list"}
       THEN IF ~ValidPair(input)
            THEN NotCreated(i, "ValueError", <<>>, input)
            ELSE AlignReads(i, input, input.v, mapping_quality, aligner,
                            dedupper, processes, log)
       ELSE LET format == file_format_from_extension(input.v)
            IN  IF format \in {"FileExtensionError", "IndexError"}
                THEN NotCreated(i, format, <<>>, input)
                ELSE IF format \in {"fasta", "fastq"}
                THEN AlignReads(i, input, <<input.v>>, mapping_quality,
                                aligner, dedupper, processes, log)
                ELSE \E run \in Stage(IF IsFile(disk, input.v)
                                      THEN ViewTool(disk[input.v].data,
                                                    mapping_quality, {}, {})
                                      ELSE <<>>) :
                        /\ IsFile(disk, input.v) \/ run.exit = 1
                        /\ Created(i, NewObj(run.out, mapping_quality,
                                             dedupper, processes, log),
                                   <<Ran("samtools view", run)>>, input)
    /\ UNCHANGED disk

\* SequenceAlignment(input_file, ...) with the default aligner
Create(i, input, mapping_quality, dedupper, processes, log) ==
    CreateWith(i, input, mapping_quality, "None", dedupper, processes, log)

\* SequenceAlignment.__enter__
Enter(i) ==
    /\ Alive(i)
    /\ objs' = [objs EXCEPT ![i].cleans_up_bam = TRUE]
    /\ last' = Done("__enter__", i, <<>>)
    /\ UNCHANGED <<disk, sorted_before, replaced_since_sort>>

\* the assignment sa.cleans_up_bam = False of the package's example
ClearCleansUp(i) ==
    /\ Alive(i)
    /\ objs' = [objs EXCEPT ![i].cleans_up_bam = FALSE]
    /\ last' = Done("cleans_up_bam = False", i, <<>>)
    /\ UNCHANGED <<disk, sorted_before, replaced_since_sort>>

\* SequenceAlignment.__exit__
Exit(i) ==
    /\ Alive(i)
    /\ IF objs[i].cleans_up_bam
       THEN LET r1 == clean_up(disk, objs[i].bam_file_path)
                r2 == clean_up(r1.disk, PyStr(BaiPath(objs[i].bam_file_path)))
            IN  IF r1.err # "none"
                THEN disk' = r1.disk /\ last' = Raised("__exit__", i, r1.err, <<>>)
                ELSE disk' = r2.disk /\ last' = Raised("__exit__", i, r2.err, <<>>)
       ELSE disk' = disk /\ last' = Done("__exit__", i, <<>>)
    /\ UNCHANGED <<objs, sorted_before, replaced_since_sort>>

\* SequenceAlignment.samtools_view
samtools_view(i, req, excl, mapping_quality) ==
    /\ Alive(i)
    /\ \E run \in Stage(ViewTool(objs[i].bam,
                                 IF mapping_quality = None
                                 THEN objs[i].mapping_quality
                                 ELSE mapping_quality.v,
                                 req, excl)) :
          /\ objs' = [objs EXCEPT ![i].bam = run.out]
          /\ last' = Done("samtools_view", i, <<Ran("samtools view", run)>>)
    /\ UNCHANGED <<disk, sorted_before, replaced_since_sort>>

\* samtools_index without the is_sorted check
samtools_index_unchecked(i) ==
    /\ Alive(i)
    /\ \E run \in { [exit |-> 0, out |-> IndexTool(objs[i].bam)],
                     [exit |-> 1, out |-> <<>>] } :
          /\ objs' = [objs EXCEPT ![i].index = PyBytes(run.out)]
          /\ last' = Done("samtools_index", i, <<Ran("samtools index", run)>>)
    /\ UNCHANGED <<disk, sorted_before, replaced_since_sort>>

\* SequenceAlignment.samtools_index
samtools_index(i) ==
    /\ Alive(i)
    /\ IF ~objs[i].is_sorted
       THEN Raise("samtools_index", i, "NotSorted")
       ELSE /\ \E run \in { [exit |-> 0, out |-> IndexTool(objs[i].bam)],
                            [exit |-> 1, out |-> <<>>] } :
                /\ objs' = [objs EXCEPT ![i].index = PyBytes(run.out)]
                /\ last' = Done("samtools_index", i, <<Ran("samtools index", run)>>)
            /\ UNCHANGED <<disk, sorted_before, replaced_since_sort>>

\* samtools_sort with the floor test written <= instead of <
samtools_sort_floor_inclusive(i, memory_limit) ==
    /\ Alive(i)
    /\ IF memory_limit <= MemoryFloor
       THEN Raise("samtools_sort", i, "MemoryLimitError")
       ELSE /\ \E run \in Stage(SortTool(objs[i].bam)) :
                /\ objs' = [objs EXCEPT ![i].bam = run.out,
                                        ![i].is_sorted = TRUE]
                /\ last' = Done("samtools_sort", i, <<Ran("samtools sort", run)>>)
            /\ sorted_before' = [sorted_before EXCEPT ![i] = TRUE]
            /\ replaced_since_sort' = [replaced_since_sort EXCEPT ![i] = FALSE]
            /\ UNCHANGED disk

\* SequenceAlignment.samtools_sort
samtools_sort(i, memory_limit) ==
    /\ Alive(i)
    /\ IF memory_limit < MemoryFloor
       THEN Raise("samtools_sort", i, "MemoryLimitError")
       ELSE /\ \E run \in Stage(SortTool(objs[i].bam)) :
                /\ objs' = [objs EXCEPT ![i].bam = run.out,
                                        ![i].is_sorted = TRUE]
                /\ last' = Done("samtools_sort", i, <<Ran("samtools sort", run)>>)
            /\ sorted_before' = [sorted_before EXCEPT ![i] = TRUE]
            /\ replaced_since_sort' = [replaced_since_sort EXCEPT ![i] = FALSE]
            /\ UNCHANGED disk

\* write with the files opened in append mode
write_appending(i, bam_file_path) ==
    /\ Alive(i)
    /\ LET d1 == [disk EXCEPT ![bam_file_path] = File(@.data \o objs[i].bam)]
       IN  disk' = IF Truthy(objs[i].index)
                   THEN [d1 EXCEPT ![bam_file_path \o <<"bai">>] =
                            File(@.data \o objs[i].index.v)]
                   ELSE d1
    /\ objs' = [objs EXCEPT ![i].bam_file_path = PyStr(bam_file_path)]
    /\ last' = Called("write", i, "none", <<>>, PyStr(bam_file_path))
    /\ UNCHANGED <<sorted_before, replaced_since_sort>>

\* SequenceAlignment.write
write(i, bam_file_path) ==
    /\ Alive(i)
    /\ LET d1 == [disk EXCEPT ![bam_file_path] = File(objs[i].bam)]
       IN  disk' = IF Truthy(objs[i].index)
                   THEN [d1 EXCEPT ![bam_file_path \o <<"bai">>] =
                            File(objs[i].index.v)]
                   ELSE d1
    /\ objs' = [objs EXCEPT ![i].bam_file_path = PyStr(bam_file_path)]
    /\ last' = Called("write", i, "none", <<>>, PyStr(bam_file_path))
    /\ UNCHANGED <<sorted_before, replaced_since_sort>>

\* SequenceAlignment.remove_blacklisted_reads
remove_blacklisted_reads(i, blacklist_path) ==
    /\ Alive(i)
    /\ \E run \in Stage(IntersectVTool(objs[i].bam, blacklist_path)) :
          /\ objs' = [objs EXCEPT ![i].bam = run.out]
          /\ last' = Done("remove_blacklisted_reads", i,
                          <<Ran("bedtools intersect", run)>>)
    /\ UNCHANGED <<disk, sorted_before, replaced_since_sort>>

\* RemoveDuplicates.__call__(bam, log): the runs it can make.  communicate()
\* is called without the buffer, so the tool reads an empty stream.
RemoveDuplicatesRuns(bam) == Stage(ViewTool(<<>>, 0, {}, {FlagDuplicate}))

\* a caller's own deduplicator, fed the buffer
CustomDedupperRuns(bam) == Stage(ViewTool(bam, 0, {}, {FlagDuplicate}))

\* what calling the deduplicator d with a buffer can return
DedupperRuns(d, bam) ==
    IF d = "RemoveDuplicates" THEN RemoveDuplicatesRuns(bam)
    ELSE CustomDedupperRuns(bam)

\* a deduplicator that raised instead of returning
Threw(d) == [tool |-> d, exit |-> -1]

\* remove_duplicates preferring the object's deduplicator to the argument
remove_duplicates_default_first(i, dedupper) ==
    /\ Alive(i)
    /\ IF dedupper = "None" /\ objs[i].dedupper = "None"
       THEN Raise("remove_duplicates", i, "NoDedupper")
       ELSE LET d == IF objs[i].dedupper # "None" THEN objs[i].dedupper
                     ELSE dedupper
            IN  IF d = "RemoveDuplicates" /\ ~objs[i].log
                THEN /\ last' = Called("remove_duplicates", i,
                                       "AttributeError", <<Threw(d)>>,
                                       PyBytes(objs[i].bam))
                     /\ UNCHANGED <<objs, disk, sorted_before, replaced_since_sort>>
                ELSE /\ \E run \in DedupperRuns(d, objs[i].bam) :
                          /\ objs' = [objs EXCEPT ![i].bam = run.out]
                          /\ last' = Called("remove_duplicates", i, "none",
                                            <<Ran(d, run)>>,
                                            PyBytes(objs[i].bam))
                     /\ replaced_since_sort' =
                            [replaced_since_sort EXCEPT
                                ![i] = @ \/ d # "RemoveDuplicates"]
                     /\ UNCHANGED <<disk, sorted_before>>

\* SequenceAlignment.remove_duplicates; last.arg is the buffer the
\* deduplicator was called with
remove_duplicates(i, dedupper) ==
    /\ Alive(i)
    /\ IF dedupper = "None" /\ objs[i].dedupper = "None"
       THEN Raise("remove_duplicates", i, "NoDedupper")
       ELSE LET d == IF dedupper # "None" THEN dedupper ELSE objs[i].dedupper
            IN  IF d = "RemoveDuplicates" /\ ~objs[i].log
                \* stderr=os.devnull is a str: Popen raises
                THEN /\ last' = Called("remove_duplicates", i,
                                       "AttributeError", <<Threw(d)>>,
                                       PyBytes(objs[i].bam))
                     /\ UNCHANGED <<objs, disk, sorted_before, replaced_since_sort>>
                ELSE /\ \E run \in DedupperRuns(d, objs[i].bam) :
                          /\ objs' = [objs EXCEPT ![i].bam = run.out]
                          /\ last' = Called("remove_duplicates", i, "none",
                                            <<Ran(d, run)>>,
                                            PyBytes(objs[i].bam))
                     /\ replaced_since_sort' =
                            [replaced_since_sort EXCEPT
                                ![i] = @ \/ d # "RemoveDuplicates"]
                     /\ UNCHANGED <<disk, sorted_before>>

\* SequenceAlignment.samtools_fixmate and the function samtools_fixmate
samtools_fixmate(i) ==
    /\ Alive(i)
    /\ \E run \in Stage(FixmateTool(objs[i].bam)) :
          /\ objs' = [objs EXCEPT ![i].bam = run.out]
          /\ last' = Done("samtools_fixmate", i, <<Ran("samtools fixmate", run)>>)
    /\ replaced_since_sort' = [replaced_since_sort EXCEPT ![i] = TRUE]
    /\ UNCHANGED <<disk, sorted_before>>

\* A chromosome name is a sequence of pieces: the piece "chr", or a piece
\* that holds none of the letters c, h, r, so that 'chrchr' occurs in a name
\* exactly where two "chr" pieces are adjacent.
NamePieces == {"chr", "1", "M"}
Names == UNION { [1..n -> NamePieces] : n \in 0..MaxName }

RECURSIVE ReplaceChrChr(_)
\* str.replace('chrchr', 'chr'): the occurrences are found left to right and
\* do not overlap
ReplaceChrChr(s) ==
    IF Len(s) < 2 THEN s
    ELSE IF s[1] = "chr" /\ s[2] = "chr"
    THEN <<"chr">> \o ReplaceChrChr(SubSeq(s, 3, Len(s)))
    ELSE <<s[1]>> \o ReplaceChrChr(Tail(s))

\* f'chr{c}'.replace('chrchr', 'chr')
Normalize(c) == ReplaceChrChr(<<"chr">> \o c)

\* the reference sequence a read lies on: position 1 is on chr1, 2 on chrM
ContigOf(r) == IF r.pos = 1 THEN <<"chr", "1">> ELSE <<"chr", "M">>

\* samtools view <file> [region ...]: the reads of the file on the regions
\* named, every read when no region is named
RegionTool(b, q, regions) ==
    SelectSeq(b, LAMBDA r :
        /\ r.mapq >= q
        /\ regions # <<>> =>
                \E k \in 1..Len(regions) : regions[k] = ContigOf(r))

\* What a tool finds in the temporary file: temp_bam.write(self.bam) is not
\* flushed, so the file holds the buffer only if the write was larger than
\* the file object's buffer, and is empty otherwise.
TempContents == {"buffer", "nothing"}

\* a stage reading the temporary file: on an empty file the tool exits
\* non-zero without output, or takes it for an alignment without reads
FileStage(found, out) ==
    IF found = "buffer" THEN Stage(out)
    ELSE { [exit |-> 1, out |-> <<>>], [exit |-> 0, out |-> <<>>] }

\* a stage and what it found in the file it was pointed at
RanOn(tool, run, found) == [tool |-> tool, exit |-> run.exit, found |-> found]

\* a name for a new temporary file
FreshTemp(t) ==
    /\ t \in TempNames
    /\ ~IsFile(disk, t) /\ ~IsFile(disk, t \o <<"bai">>)

\* the regions restrict_chromosomes hands to samtools_view
RegionArgs(chromosomes) ==
    [k \in 1..Len(chromosomes) |-> Normalize(chromosomes[k])]

\* SequenceAlignment.restrict_chromosomes(*chromosomes).  The temporary file
\* is removed when its with block is left, its .bai by the os.remove at the
\* end of the block; the Popen of samtools_view can raise in between.
\* last.arg holds the regions of the command.
restrict_chromosomes(i, chromosomes) ==
    /\ Alive(i)
    /\ IF ~Truthy(objs[i].index)
       THEN Raise("restrict_chromosomes", i, "RuntimeError")
       ELSE \E t \in TempNames :
            /\ FreshTemp(t)
            /\ \/ \E found \in TempContents :
                  \E run \in FileStage(found,
                                       RegionTool(objs[i].bam,
                                                  objs[i].mapping_quality,
                                                  RegionArgs(chromosomes))) :
                     /\ objs' = [objs EXCEPT ![i].bam = run.out]
                     /\ last' = Called("restrict_chromosomes", i, "none",
                                       <<RanOn("samtools view", run, found)>>,
                                       RegionArgs(chromosomes))
                     /\ disk' = disk
               \/ /\ objs' = objs
                  /\ last' = Called("restrict_chromosomes", i, "OSError",
                                    <<>>, RegionArgs(chromosomes))
                  /\ disk' = [disk EXCEPT
                                ![t \o <<"bai">>] = File(objs[i].index.v)]
            /\ UNCHANGED <<sorted_before, replaced_since_sort>>

\* bedtools intersect -abam stdin -b bed: the reads inside the regions
IntersectTool(b, bed) == SelectSeq(b, LAMBDA r : r.pos \in BedRegion(bed))

\* samtools view -c: the text of the number of reads, or no text when it fails
CountStage(b) ==
    { [exit |-> 0, out |-> <<Len(b)>>], [exit |-> 1, out |-> <<>>] }

\* samtools view -c <file> [region]
CountFileStage(found, b) ==
    IF found = "buffer" THEN CountStage(b)
    ELSE { [exit |-> 1, out |-> <<>>], [exit |-> 0, out |-> <<0>>] }

\* a read-only call: nothing but last changes
Returned(op, i, err, stages, value) ==
    /\ last' = Called(op, i, err, stages, value)
    /\ UNCHANGED <<objs, disk, sorted_before, replaced_since_sort>>

\* SequenceAlignment.percent_blacklisted; last.arg is the value returned
percent_blacklisted(i, blacklist_path) ==
    /\ Alive(i)
    /\ \E r1 \in CountStage(objs[i].bam) :
        LET s1 == <<RanOn("samtools view -c", r1, "buffer")>>
        IN  IF r1.out = <<>>            \* int(b'') raises
            THEN Returned("percent_blacklisted", i, "ValueError", s1, None)
            ELSE \E r2 \in Stage(IntersectTool(objs[i].bam, blacklist_path)) :
                 \E r3 \in CountStage(r2.out) :
                 LET s3 == s1 \o <<RanOn("bedtools intersect", r2, "buffer"),
                                   RanOn("samtools view -c", r3, "buffer")>>
                 IN  IF r3.out = <<>>
                     THEN Returned("percent_blacklisted", i, "ValueError",
                                   s3, None)
                     ELSE IF r1.out[1] = 0
                     THEN Returned("percent_blacklisted", i,
                                   "ZeroDivisionError", s3, None)
                     ELSE Returned("percent_blacklisted", i, "none", s3,
                                   Number(r3.out[1], r1.out[1]))

\* an exception left the with block of the temporary file t before the
\* os.remove of its .bai: the temporary file is gone, the .bai stays
Leaked(op, i, err, stages, t) ==
    /\ last' = Called(op, i, err, stages, None)
    /\ disk' = [disk EXCEPT ![t \o <<"bai">>] = File(objs[i].index.v)]
    /\ UNCHANGED <<objs, sorted_before, replaced_since_sort>>

\* SequenceAlignment.percent_mitochondrial; last.arg is the value returned
percent_mitochondrial(i) ==
    /\ Alive(i)
    /\ IF ~Truthy(objs[i].index)
       THEN Raise("percent_mitochondrial", i, "RuntimeError")
       ELSE \E t \in TempNames :
            /\ FreshTemp(t)
            /\ \/ Leaked("percent_mitochondrial", i, "OSError", <<>>, t)
               \/ \E found \in TempContents :
                  \E r1 \in CountFileStage(found, objs[i].bam) :
                  LET s1 == <<RanOn("samtools view -c", r1, found)>>
                  IN  IF r1.out = <<>>
                      THEN Leaked("percent_mitochondrial", i, "ValueError",
                                  s1, t)
                      ELSE \E r2 \in CountFileStage(found,
                                RegionTool(objs[i].bam, 0,
                                           << <<"chr", "M">> >>)) :
                           LET s2 == s1 \o <<RanOn("samtools view -c", r2,
                                                   found)>>
                           IN  IF r2.out = <<>>
                               THEN Leaked("percent_mitochondrial", i,
                                           "ValueError", s2, t)
                               ELSE IF r1.out[1] = 0
                               THEN Returned("percent_mitochondrial", i,
                                             "ZeroDivisionError", s2, None)
                               ELSE Returned("percent_mitochondrial", i,
                                             "none", s2,
                                             Number(r2.out[1], r1.out[1]))

\* samtools mpileup -f reference -l positions -: one pileup line for each
\* listed position that reads of the buffer cover
PositionsFiles == { <<"snps", "txt">> }
PositionsOf(positions) == {1}
MpileupTool(b, positions) ==
    IF \E k \in 1..Len(b) : b[k].pos \in PositionsOf(positions)
    THEN LET covering == SelectSeq(b, LAMBDA r : r.pos \in PositionsOf(positions))
         IN  <<[pos |-> covering[1].pos, depth |-> Len(covering)]>>
    ELSE <<>>

\* samtools_mpileup keeping the pileup as the buffer
samtools_mpileup_assigning(i, positions) ==
    /\ Alive(i)
    /\ \E run \in Stage(MpileupTool(objs[i].bam, positions)) :
          /\ objs' = [objs EXCEPT ![i].bam = run.out]
          /\ last' = Called("samtools_mpileup", i, "none",
                            <<RanOn("samtools mpileup", run, "buffer")>>,
                            PyBytes(run.out))
    /\ UNCHANGED <<disk, sorted_before, replaced_since_sort>>

\* SequenceAlignment.samtools_mpileup; last.arg is the pileup returned
samtools_mpileup(i, positions) ==
    /\ Alive(i)
    /\ \E run \in Stage(MpileupTool(objs[i].bam, positions)) :
          Returned("samtools_mpileup", i, "none",
                   <<RanOn("samtools mpileup", run, "buffer")>>,
                   PyBytes(run.out))

----------------------------------------------------------------------------
(* Spec: one object and every operation on its buffer *)

InFile ==
    << [pos |-> 2, mapq |-> 30, flag |-> 0],
       [pos |-> 1, mapq |-> 15, flag |-> 0] >>

\* the external processes of the FIFO topologies: the shell, the legs of
\* samtools_index (cat index_pipe, samtools index, cat > bam_pipe), the legs of
\* bwa_aln (bwa sampe or samse, bwa aln for each mate) and samtools view
Procs == {"sh", "catI", "idx", "catB", "sam", "aln1", "aln2", "view"}

\* the pipes of Popen (stdin; P, the stdout of the shell command; Q, the stdout
\* of samtools view) and the FIFOs (B = bam_pipe, I = index_pipe,
\* A1 = sai_pipe_0 or sai_pipe, A2 = sai_pipe_1)
Chans == {"stdin", "B", "I", "A1", "A2", "P", "Q"}

\* no pipeline is running
Idle ==
    [ topo |-> "idle",                    \* "index", "single" or "paired"
      pc |-> "idle",                      \* where the calling method is
      st |-> [p \in Procs |-> "none"],    \* where each process is
      k |-> [p \in Procs |-> 0],          \* how far each process has got
      acc |-> [p \in Procs |-> <<>>],     \* what each process holds in memory
      ch |-> [c \in Chans |-> <<>>],      \* what is in flight in each pipe
      src |-> <<>>,                       \* the buffer, or the raw reads
      q |-> 0,                            \* the mapping quality
      sent |-> 0,                         \* how much communicate has written
      closed |-> FALSE,                   \* communicate has closed stdin
      got |-> <<>>,                       \* what communicate has read
      fifos |-> {} ]                      \* the FIFOs that exist

Init ==
    /\ objs = [i \in ObjIds |-> NoObj]
    /\ disk = [p \in Files |->
                    IF p \in InputPaths THEN File(InFile)
                    ELSE IF p \in ReadsPaths THEN File(RawReads(p))
                    ELSE NoFile]
    /\ last = Done("start", 0, <<>>)
    /\ sorted_before = [i \in ObjIds |-> FALSE]
    /\ replaced_since_sort = [i \in ObjIds |-> FALSE]
    /\ nops = 0
    /\ mrl = [phase |-> "idle"]
    /\ os = Idle

Inputs ==
    { PyBytes(b) : b \in InputBams }
        \cup { PyStr(p) : p \in WritePaths \cup InputPaths }
        \cup { PyInt(0) }

ViewCalls ==
    { [req |-> {}, excl |-> {}, q |-> None],
      [req |-> {}, excl |-> {FlagDuplicate}, q |-> None],
      [req |-> {}, excl |-> {}, q |-> PyInt(20)] }

\* the argument tuples of restrict_chromosomes
ChromosomeCalls ==
    { <<>>, << <<"1">> >>, << <<"chr", "M">> >>, << <<"1">>, <<"M">> >> }

MemoryLimits == (MemoryFloor - 1)..MaxMemoryLimit

Next ==
    \/ \E input \in Inputs, q \in MappingQualities, d \in Dedduppers,
          log \in BOOLEAN :
            /\ ~Alive(1)
            /\ Create(1, input, q, d, 1, log)
            /\ UNCHANGED <<nops, mrl, os>>
    \/ \E c \in ViewCalls :
            samtools_view(1, c.req, c.excl, c.q) /\ UNCHANGED <<nops, mrl, os>>
    \/ samtools_index(1) /\ UNCHANGED <<nops, mrl, os>>
    \/ \E m \in MemoryLimits :
            samtools_sort(1, m) /\ UNCHANGED <<nops, mrl, os>>
    \/ \E bed \in BedFiles :
            remove_blacklisted_reads(1, bed) /\ UNCHANGED <<nops, mrl, os>>
    \/ \E d \in Dedduppers \cup {"Custom"} :
            remove_duplicates(1, d) /\ UNCHANGED <<nops, mrl, os>>
    \/ samtools_fixmate(1) /\ UNCHANGED <<nops, mrl, os>>

Spec == Init /\ [][Next]_vars

----------------------------------------------------------------------------
(* SpecFiles: one variable holding an object, re-created at will, and the  *)
(* files written from it                                                   *)

FileBams == { b \in InputBams : Len(b) = 1 }

\* the working directory is shared: something else puts a file named
\* None.bai there
OtherFileAppears ==
    /\ ~IsFile(disk, <<"None", "bai">>)
    /\ disk' = [disk EXCEPT ![<<"None", "bai">>] = File(<<>>)]
    /\ last' = Done("other", 0, <<>>)
    /\ UNCHANGED <<objs, sorted_before, replaced_since_sort>>

NextFiles ==
    \/ \E b \in FileBams, q \in MappingQualities :
            /\ ~Alive(1)
            /\ Create(1, PyBytes(b), q, "None", 1, FALSE)
            /\ UNCHANGED <<nops, mrl, os>>
    \/ \E p \in WritePaths, q \in MappingQualities :
            Create(1, PyStr(p), q, "None", 1, FALSE) /\ UNCHANGED <<nops, mrl, os>>
    \/ Enter(1) /\ UNCHANGED <<nops, mrl, os>>
    \/ ClearCleansUp(1) /\ UNCHANGED <<nops, mrl, os>>
    \/ Exit(1) /\ UNCHANGED <<nops, mrl, os>>
    \/ samtools_index(1) /\ UNCHANGED <<nops, mrl, os>>
    \/ samtools_sort(1, MemoryFloor) /\ UNCHANGED <<nops, mrl, os>>
    \/ \E p \in WritePaths : write(1, p) /\ UNCHANGED <<nops, mrl, os>>
    \/ OtherFileAppears /\ UNCHANGED <<nops, mrl, os>>

SpecFiles == Init /\ [][NextFiles]_vars

----------------------------------------------------------------------------
(* merge, + and | *)

RECURSIVE MergeTool(_, _)
\* samtools merge - f1 f2: the reads of both files, merged by position
MergeTool(b1, b2) ==
    IF b1 = <<>> THEN b2
    ELSE IF b2 = <<>> THEN b1
    ELSE IF Head(b2).pos < Head(b1).pos
         THEN <<Head(b2)>> \o MergeTool(b1, Tail(b2))
         ELSE <<Head(b1)>> \o MergeTool(Tail(b1), b2)

\* to_bam
to_bam(alignment) == alignment.bam

\* samtools_merge(bam1, bam2): the runs it can make
samtools_merge(bam1, bam2) == Stage(MergeTool(bam1, bam2))

\* merge whose result takes over the sortedness of its operands
merge_inheriting_sorted(op, n, a, b, mapping_quality, processes) ==
    /\ Alive(a) /\ Alive(b) /\ ~Alive(n)
    /\ \E run \in samtools_merge(to_bam(objs[a]), to_bam(objs[b])) :
          /\ objs' = [objs EXCEPT ![n] =
                [NewObj(run.out, mapping_quality, "None", processes, FALSE)
                    EXCEPT !.is_sorted = objs[a].is_sorted /\ objs[b].is_sorted]]
          /\ last' = Called(op, n, "none", <<Ran("samtools merge", run)>>,
                            <<a, b>>)
    /\ sorted_before' = [sorted_before EXCEPT ![n] = FALSE]
    /\ replaced_since_sort' = [replaced_since_sort EXCEPT ![n] = FALSE]
    /\ UNCHANGED disk

\* merge that also stores the merged buffer in its first operand
merge_into_operand(op, n, a, b, mapping_quality, processes) ==
    /\ Alive(a) /\ Alive(b) /\ ~Alive(n)
    /\ \E run \in samtools_merge(to_bam(objs[a]), to_bam(objs[b])) :
          /\ objs' = [objs EXCEPT ![n] =
                NewObj(run.out, mapping_quality, "None", processes, FALSE),
                ![a].bam = run.out]
          /\ last' = Called(op, n, "none", <<Ran("samtools merge", run)>>,
                            <<a, b>>)
    /\ sorted_before' = [sorted_before EXCEPT ![n] = FALSE]
    /\ replaced_since_sort' = [replaced_since_sort EXCEPT ![n] = FALSE]
    /\ UNCHANGED disk

\* merge(a, b, mapping_quality=..., processes=...): the new object is n
merge(op, n, a, b, mapping_quality, processes) ==
    /\ Alive(a) /\ Alive(b) /\ ~Alive(n)
    /\ \E run \in samtools_merge(to_bam(objs[a]), to_bam(objs[b])) :
          /\ objs' = [objs EXCEPT ![n] =
                NewObj(run.out, mapping_quality, "None", processes, FALSE)]
          /\ last' = Called(op, n, "none", <<Ran("samtools merge", run)>>,
                            <<a, b>>)
    /\ sorted_before' = [sorted_before EXCEPT ![n] = FALSE]
    /\ replaced_since_sort' = [replaced_since_sort EXCEPT ![n] = FALSE]
    /\ UNCHANGED disk

\* __add__ taking the min of the two mapping qualities, as __or__ does
add_min(n, a, b) ==
    /\ Alive(a) /\ Alive(b)
    /\ merge("__add__", n, a, b,
             Min(objs[a].mapping_quality, objs[b].mapping_quality),
             Min(objs[a].processes, objs[b].processes))

\* SequenceAlignment.__add__
add(n, a, b) ==
    /\ Alive(a) /\ Alive(b)
    /\ merge("__add__", n, a, b,
             Max(objs[a].mapping_quality, objs[b].mapping_quality),
             Min(objs[a].processes, objs[b].processes))

\* SequenceAlignment.__or__
or(n, a, b) ==
    /\ Alive(a) /\ Alive(b)
    /\ merge("__or__", n, a, b,
             Min(objs[a].mapping_quality, objs[b].mapping_quality),
             Min(objs[a].processes, objs[b].processes))

----------------------------------------------------------------------------
(* SpecMerge: several objects, merged by +, | and merge(), within MaxOps   *)
(* calls                                                                   *)

\* the buffer the n-th object is created from
MergeBam(n) ==
    IF n % 2 = 1
    THEN << [pos |-> 2, mapq |-> 30, flag |-> 0] >>
    ELSE << [pos |-> 1, mapq |-> 15, flag |-> FlagDuplicate] >>

Fresh(n) == ~Alive(n) /\ \A j \in 1..(n - 1) : Alive(j)

Tick == nops < MaxOps /\ nops' = nops + 1 /\ UNCHANGED <<mrl, os>>

NextMerge ==
    \/ \E n \in ObjIds, q \in MappingQualities, p \in 1..MaxProcesses :
            /\ Fresh(n)
            /\ Create(n, PyBytes(MergeBam(n)), q, "None", p, FALSE)
            /\ Tick
    \/ \E n, a, b \in ObjIds : Fresh(n) /\ add(n, a, b) /\ Tick
    \/ \E n, a, b \in ObjIds : Fresh(n) /\ or(n, a, b) /\ Tick
    \/ \E n, a, b \in ObjIds :
            Fresh(n) /\ merge("merge", n, a, b, DefaultMappingQuality, 1) /\ Tick
    \/ \E i \in ObjIds : Enter(i) /\ Tick
    \/ \E i \in ObjIds : Exit(i) /\ Tick
    \/ \E i \in ObjIds :
            samtools_view(i, {}, {FlagDuplicate}, None) /\ Tick
    \/ \E i \in ObjIds : samtools_index(i) /\ Tick
    \/ \E i \in ObjIds, m \in {MemoryFloor - 1, MemoryFloor} :
            samtools_sort(i, m) /\ Tick
    \/ \E i \in ObjIds, bed \in BedFiles :
            remove_blacklisted_reads(i, bed) /\ Tick
    \/ \E i \in ObjIds : remove_duplicates(i, "Custom") /\ Tick
    \/ \E i \in ObjIds : samtools_fixmate(i) /\ Tick
    \/ \E i \in ObjIds : restrict_chromosomes(i, << <<"M">> >>) /\ Tick
    \/ \E i \in ObjIds : write(i, <<"a", "bam">>) /\ Tick

SpecMerge == Init /\ [][NextMerge]_vars

----------------------------------------------------------------------------
(* get_median_read_length *)

ReadLengths == {10, 20, 30, 40}

\* a FASTA/FASTQ file, as the lengths of its reads in file order
ReadFiles(n) == UNION { [1..k -> ReadLengths] : k \in 0..n }

\* get_median_read_length(raw_reads_paths, number_of_reads) is called
MrlCall(files, number_of_reads) ==
    /\ mrl.phase = "idle"
    /\ mrl' = [phase |-> "loop", files |-> files,
               number_of_reads |-> number_of_reads,
               k |-> 1, histogram |-> <<>>, median |-> Number(0, 0)]
    /\ UNCHANGED <<objs, disk, last, sorted_before, replaced_since_sort, nops, os>>

\* one pass of the loop over the files
MrlFile ==
    /\ mrl.phase = "loop" /\ mrl.k <= Len(mrl.files)
    /\ LET histogram == Count(mrl.histogram,
                              islice(mrl.files[mrl.k], mrl.number_of_reads))
       IN  IF DOMAIN histogram = {}
           THEN mrl' = [mrl EXCEPT !.phase = "raised"]
           ELSE mrl' = [mrl EXCEPT !.histogram = histogram,
                                   !.median = MedianOfHistogram(histogram),
                                   !.k = @ + 1]
    /\ UNCHANGED <<objs, disk, last, sorted_before, replaced_since_sort, nops, os>>

\* return median
MrlReturn ==
    /\ mrl.phase = "loop" /\ mrl.k > Len(mrl.files)
    /\ mrl' = [mrl EXCEPT !.phase = "returned"]
    /\ UNCHANGED <<objs, disk, last, sorted_before, replaced_since_sort, nops, os>>

\* the inputs: one file, or a pair of files, of at most MaxSample reads
MrlInputs ==
    { <<f>> : f \in ReadFiles(MaxSample) }
        \cup { <<f1, f2>> : f1 \in ReadFiles(MaxSample \div 2),
                            f2 \in ReadFiles(MaxSample \div 2) }

NextMedian ==
    \/ \E files \in MrlInputs, n \in {1, MaxSample} : MrlCall(files, n)
    \/ MrlFile
    \/ MrlReturn

SpecMedian == Init /\ [][NextMedian]_vars

----------------------------------------------------------------------------
(* SpecRegions: one object and the operations that go through its index    *)
(* and a temporary file, with every chromosome name up to MaxName pieces.  *)

RegionBams ==
    { <<>>,
      InFile,
      << [pos |-> 1, mapq |-> 30, flag |-> 0] >> }

NextRegions ==
    \/ \E b \in RegionBams :
            /\ ~Alive(1)
            /\ Create(1, PyBytes(b), DefaultMappingQuality, "None", 1, FALSE)
            /\ UNCHANGED <<nops, mrl, os>>
    \/ samtools_sort(1, MemoryFloor) /\ UNCHANGED <<nops, mrl, os>>
    \/ samtools_index(1) /\ UNCHANGED <<nops, mrl, os>>
    \/ \E c \in Names :
            restrict_chromosomes(1, <<c>>) /\ UNCHANGED <<nops, mrl, os>>
    \/ \E cs \in ChromosomeCalls :
            restrict_chromosomes(1, cs) /\ UNCHANGED <<nops, mrl, os>>
    \/ percent_mitochondrial(1) /\ UNCHANGED <<nops, mrl, os>>
    \/ \E bed \in BedFiles :
            percent_blacklisted(1, bed) /\ UNCHANGED <<nops, mrl, os>>
    \/ \E positions \in PositionsFiles :
            samtools_mpileup(1, positions) /\ UNCHANGED <<nops, mrl, os>>

SpecRegions == Init /\ [][NextRegions]_vars

----------------------------------------------------------------------------
(* SpecBwa: BWA.__call__, the choice between bwa_aln and bwa_mem.  The     *)
(* call is recorded in last: arg holds the BWA object's algorithm and      *)
(* algorithm_switch_bp, stages the strategies run, err is "sampling" while *)
(* get_median_read_length runs on behalf of the call.                      *)

\* BWA.algorithm: None, a pinned strategy, or any other string
Algorithms == {"None", "aln", "mem", "sw"}

SwitchBps == {DefaultSwitchBp, DefaultSwitchBp + 1}

\* raw reads around the threshold: a file is the sequence of its read lengths
BwaFiles == { <<>>, <<70>>, <<71>>, <<70, 71>>, <<71, 71, 72>> }

\* raw_reads_path: one file or a pair of files
BwaInputs ==
    { <<f>> : f \in BwaFiles }
        \cup { <<f1, f2>> : f1 \in BwaFiles, f2 \in BwaFiles }

\* BWA.__call__ up to the call of get_median_read_length
BwaCall(algorithm, algorithm_switch_bp, raw_reads_path, max_reads) ==
    /\ last.op = "start" /\ mrl.phase = "idle"
    /\ IF algorithm = "aln"
       THEN /\ last' = Called("BWA.__call__", 0, "none", <<"bwa_aln">>,
                    [algorithm |-> algorithm,
                     algorithm_switch_bp |-> algorithm_switch_bp])
            /\ mrl' = mrl
       ELSE IF algorithm = "mem"
       THEN /\ last' = Called("BWA.__call__", 0, "none", <<"bwa_mem">>,
                    [algorithm |-> algorithm,
                     algorithm_switch_bp |-> algorithm_switch_bp])
            /\ mrl' = mrl
       ELSE /\ last' = Called("BWA.__call__", 0, "sampling", <<>>,
                    [algorithm |-> algorithm,
                     algorithm_switch_bp |-> algorithm_switch_bp])
            /\ mrl' = [phase |-> "loop", files |-> raw_reads_path,
                       number_of_reads |-> max_reads,
                       k |-> 1, histogram |-> <<>>, median |-> Number(0, 0)]
    /\ UNCHANGED <<objs, disk, sorted_before, replaced_since_sort, nops, os>>

\* the comparison with the strict test only
BwaDispatch_strict ==
    /\ last.op = "BWA.__call__" /\ last.err = "sampling"
    /\ mrl.phase = "returned"
    /\ last' = [last EXCEPT !.err = "none",
            !.stages = IF mrl.median.num < last.arg.algorithm_switch_bp
                                                * mrl.median.den
                       THEN <<"bwa_aln">>
                       ELSE IF ~NumberLeq(mrl.median,
                                          last.arg.algorithm_switch_bp)
                       THEN <<"bwa_mem">>
                       ELSE <<>>]
    /\ UNCHANGED <<objs, disk, sorted_before, replaced_since_sort, nops, mrl, os>>

\* BWA.__call__ after get_median_read_length has returned
BwaDispatch ==
    /\ last.op = "BWA.__call__" /\ last.err = "sampling"
    /\ mrl.phase = "returned"
    /\ last' = [last EXCEPT !.err = "none",
            !.stages = IF NumberLeq(mrl.median, last.arg.algorithm_switch_bp)
                       THEN <<"bwa_aln">>
                       ELSE IF ~NumberLeq(mrl.median,
                                          last.arg.algorithm_switch_bp)
                       THEN <<"bwa_mem">>
                       ELSE <<>>]
    /\ UNCHANGED <<objs, disk, sorted_before, replaced_since_sort, nops, mrl, os>>

\* get_median_read_length raised: the exception leaves BWA.__call__
BwaRaise ==
    /\ last.op = "BWA.__call__" /\ last.err = "sampling"
    /\ mrl.phase = "raised"
    /\ last' = [last EXCEPT !.err = "Exception"]
    /\ UNCHANGED <<objs, disk, sorted_before, replaced_since_sort, nops, mrl, os>>

NextBwa ==
    \/ \E a \in Algorithms, t \in SwitchBps, r \in BwaInputs,
          n \in {1, MaxSample} : BwaCall(a, t, r, n)
    \/ MrlFile
    \/ MrlReturn
    \/ BwaDispatch
    \/ BwaRaise

SpecBwa == Init /\ [][NextBwa]_vars

(***************************************************************************)
(* Creation: one call SequenceAlignment(input_file, ...) on every kind of  *)
(* input.                                                                  *)
(***************************************************************************)
\* the paths a tuple or list of raw read files is made of
PairPaths ==
    { <<"r1", "fq">>, <<"long", "fa">>, <<"e", "fq">>, <<"x", "txt">>,
      MissingReads }

PairInputs ==
    UNION { [1..n -> PairPaths] : n \in 1..3 }

CreateInputs ==
    { PyBytes(b) : b \in RegionBams }
        \cup { [t |-> "tuple", v |-> v] : v \in PairInputs }
        \cup { [t |-> "list", v |-> v] : v \in PairInputs }
        \cup { PyStr(p) : p \in WritePaths \cup InputPaths \cup ReadsPaths
                                \cup {MissingReads, <<"gz">>} }
        \cup { PyInt(0), None }

NextCreate ==
    \E input \in CreateInputs, q \in MappingQualities, a \in Aligners :
        /\ nops = 0
        /\ \E processes \in 1..MaxProcesses :
                CreateWith(1, input, q, a, "None", processes, FALSE)
        /\ nops' = 1
        /\ UNCHANGED <<mrl, os>>

SpecCreate == Init /\ [][NextCreate]_vars

(***************************************************************************)
(* samtools_view: the flag options of the command, for every combination  *)
(* of the eight keyword predicates.                                        *)
(***************************************************************************)
\* the keyword predicates of samtools_view, in the order of the command
Predicates ==
    << "remove_unpaired", "remove_improperly_paired", "remove_unmapped",
       "remove_mate_unmapped", "remove_not_primary",
       "remove_fails_quality_check", "remove_duplicate",
       "remove_supplementary" >>

\* the option each predicate adds to the command when it is True
PredicateOption(p) ==
    IF p = "remove_unpaired" THEN [opt |-> "-f", val |-> 1]
    ELSE IF p = "remove_improperly_paired" THEN [opt |-> "-f", val |-> 2]
    ELSE IF p = "remove_unmapped" THEN [opt |-> "-F", val |-> 4]
    ELSE IF p = "remove_mate_unmapped" THEN [opt |-> "-F", val |-> 8]
    ELSE IF p = "remove_not_primary" THEN [opt |-> "-F", val |-> 256]
    ELSE IF p = "remove_fails_quality_check" THEN [opt |-> "-F", val |-> 512]
    ELSE IF p = "remove_duplicate" THEN [opt |-> "-F", val |-> 1024]
    ELSE [opt |-> "-F", val |-> 2048]

RECURSIVE OptionsFrom(_, _)
\* remove_x * ('-f', 'n') + ... : the options of the predicates k.. that are on
OptionsFrom(k, enabled) ==
    IF k > Len(Predicates) THEN <<>>
    ELSE (IF Predicates[k] \in enabled
          THEN <<PredicateOption(Predicates[k])>> ELSE <<>>)
            \o OptionsFrom(k + 1, enabled)

\* the flag options without the one of remove_supplementary
ViewOptions_no_supplementary(enabled) ==
    OptionsFrom(1, enabled \ {"remove_supplementary"})

\* the flag options of the command of samtools_view
ViewOptions(enabled) == OptionsFrom(1, enabled)

\* the bits of the SAM flag
FlagBits == {1, 2, 4, 8, 16, 32, 64, 128, 256, 512, 1024, 2048}

\* samtools view ORs the values of repeated -f (and of repeated -F) options
FlagMask(command, opt) ==
    { b \in FlagBits :
        \E k \in 1..Len(command) :
            command[k].opt = opt /\ HasBit(command[k].val, b) }

\* SequenceAlignment.samtools_view(remove_...=True, ...) with the predicates
\* of the set enabled on.  last.arg holds the predicates and the options of
\* the command.
samtools_view_flags(i, enabled) ==
    /\ Alive(i)
    /\ LET command == ViewOptions(enabled)
       IN  \E run \in Stage(ViewTool(objs[i].bam, objs[i].mapping_quality,
                                     FlagMask(command, "-f"),
                                     FlagMask(command, "-F"))) :
            /\ objs' = [objs EXCEPT ![i].bam = run.out]
            /\ last' = Called("samtools_view", i, "none",
                              <<Ran("samtools view", run)>>,
                              [enabled |-> enabled, command |-> command])
    /\ UNCHANGED <<disk, sorted_before, replaced_since_sort>>

\* a buffer with a read that passes every predicate (flag 3) and, for each
\* predicate, a read that only it removes
ViewFlags == <<3, 0, 1, 7, 11, 259, 515, 1027, 2051>>
ViewBam == [k \in 1..Len(ViewFlags) |->
                [pos |-> 1, mapq |-> 30, flag |-> ViewFlags[k]]]

NextView ==
    \/ /\ nops = 0
       /\ Create(1, PyBytes(ViewBam), DefaultMappingQuality, "None", 1, FALSE)
       /\ nops' = 1
       /\ UNCHANGED <<mrl, os>>
    \/ \E enabled \in SUBSET { Predicates[k] : k \in 1..Len(Predicates) } :
            /\ nops = 1
            /\ samtools_view_flags(1, enabled)
            /\ nops' = 2
            /\ UNCHANGED <<mrl, os>>

SpecView == Init /\ [][NextView]_vars

(***************************************************************************)
(* The FIFO topologies of samtools_index and BWA.bwa_aln, process by       *)
(* process.  A step of the model is one system call of one process: a     *)
(* fork, an open of a FIFO (which blocks until the other end is opened),   *)
(* the transfer of one item through a pipe of bounded capacity (a write    *)
(* blocks while the pipe is full, a read while it is empty and a writer    *)
(* still holds it), a wait, an exit (which closes every descriptor of the  *)
(* process).  The tools run without failing.                               *)
(***************************************************************************)
\* the capacity of a pipe or FIFO, in items
PipeCapacity == 2

\* the largest buffer, and the largest number of reads of a raw reads file
MaxItems == 3

\* the commands of the shell when the first bwa aln of the paired command is
\* followed by ; instead of &
ShScript_aln_in_turn(topo) ==
    IF topo = "index"
    THEN << [op |-> "fork", p |-> "catI"], [op |-> "fork", p |-> "idx"],
            [op |-> "fork", p |-> "catB"], [op |-> "wait", p |-> "catB"] >>
    ELSE IF topo = "paired"
    THEN << [op |-> "fork", p |-> "sam"], [op |-> "fork", p |-> "aln1"],
            [op |-> "wait", p |-> "aln1"], [op |-> "fork", p |-> "aln2"] >>
    ELSE << [op |-> "fork", p |-> "sam"], [op |-> "fork", p |-> "aln1"],
            [op |-> "wait", p |-> "aln1"] >>

\* the commands of the shell when the index command has no cat {0} leg
ShScript_no_drain(topo) ==
    IF topo = "index"
    THEN << [op |-> "fork", p |-> "idx"],
            [op |-> "fork", p |-> "catB"], [op |-> "wait", p |-> "catB"] >>
    ELSE IF topo = "paired"
    THEN << [op |-> "fork", p |-> "sam"], [op |-> "fork", p |-> "aln1"],
            [op |-> "fork", p |-> "aln2"] >>
    ELSE << [op |-> "fork", p |-> "sam"], [op |-> "fork", p |-> "aln1"],
            [op |-> "wait", p |-> "aln1"] >>

\* sh -c '...': the commands of the shell, in order.  A command followed by
\* & is forked and left alone; the shell waits for a command followed by ;
\* or by the end of the string.
\*   index:  cat {0} & samtools index {1} {0} & cat > {1}
\*   paired: bwa sampe ... & bwa aln ... > {1} & bwa aln ... > {2} &
\*   single: bwa samse ... & bwa aln ... > {1};
ShScript(topo) ==
    IF topo = "index"
    THEN << [op |-> "fork", p |-> "catI"], [op |-> "fork", p |-> "idx"],
            [op |-> "fork", p |-> "catB"], [op |-> "wait", p |-> "catB"] >>
    ELSE IF topo = "paired"
    THEN << [op |-> "fork", p |-> "sam"], [op |-> "fork", p |-> "aln1"],
            [op |-> "fork", p |-> "aln2"] >>
    ELSE << [op |-> "fork", p |-> "sam"], [op |-> "fork", p |-> "aln1"],
            [op |-> "wait", p |-> "aln1"] >>

NoOpen == [c |-> "none", m |-> "none"]

\* the FIFO a process is blocked opening, and the mode
Opening(p) ==
    IF os.st[p] = "open"
    THEN CASE p = "catI" -> [c |-> "I", m |-> "r"]
           [] p = "idx" -> [c |-> "B", m |-> "r"]
           [] p = "catB" -> [c |-> "B", m |-> "w"]
           [] p = "sam" -> [c |-> "A1", m |-> "r"]
           [] p = "aln1" -> [c |-> "A1", m |-> "w"]
           [] p = "aln2" -> [c |-> "A2", m |-> "w"]
           [] OTHER -> NoOpen
    ELSE IF os.st[p] = "open2"
    THEN CASE p = "idx" -> [c |-> "I", m |-> "w"]
           [] p = "sam" -> [c |-> "A2", m |-> "r"]
           [] OTHER -> NoOpen
    ELSE NoOpen

\* the opens of FIFOs a process has completed
Opened(p) ==
    CASE p = "catI" ->
            IF os.st[p] \in {"run", "exited"}
            THEN {[c |-> "I", m |-> "r"]} ELSE {}
      [] p = "idx" ->
            (IF os.st[p] \in {"read", "open2", "write", "exited"}
             THEN {[c |-> "B", m |-> "r"]} ELSE {})
            \cup (IF os.st[p] \in {"write", "exited"}
                  THEN {[c |-> "I", m |-> "w"]} ELSE {})
      [] p = "catB" ->
            IF os.st[p] \in {"run", "exited"}
            THEN {[c |-> "B", m |-> "w"]} ELSE {}
      [] p = "sam" ->
            (IF os.st[p] \in {"open2", "run", "exited"}
             THEN {[c |-> "A1", m |-> "r"]} ELSE {})
            \cup (IF os.topo = "paired" /\ os.st[p] \in {"run", "exited"}
                  THEN {[c |-> "A2", m |-> "r"]} ELSE {})
      [] p \in {"aln1", "aln2"} ->
            IF os.st[p] \in {"run", "exited"}
            THEN {[c |-> IF p = "aln1" THEN "A1" ELSE "A2", m |-> "w"]}
            ELSE {}
      [] OTHER -> {}

Flip(o) == [c |-> o.c, m |-> IF o.m = "r" THEN "w" ELSE "r"]

\* where a process is once its open has returned
AfterOpen(p) ==
    IF p = "idx" THEN (IF os.st[p] = "open" THEN "read" ELSE "write")
    ELSE IF p = "sam" /\ os.topo = "paired" /\ os.st[p] = "open"
    THEN "open2"
    ELSE "run"

\* open() of a FIFO returns once the other end is being opened or has been
OpenStep(p) ==
    /\ Opening(p) # NoOpen
    /\ \E p2 \in Procs \ {p} :
            \/ Opening(p2) = Flip(Opening(p))
            \/ Flip(Opening(p)) \in Opened(p2)
    /\ os' = [os EXCEPT !.st[p] = AfterOpen(p)]

Room(c) == Len(os.ch[c]) < PipeCapacity

\* the processes that hold the write end of P, the stdout of the shell
\* command: the shell and the legs whose stdout is not redirected, and a leg
\* with a redirection until the open of its FIFO has returned
PHolders ==
    { p \in {"sh", "catI", "idx", "sam"} : os.st[p] \notin {"none", "exited"} }
        \cup { p \in {"catB", "aln1", "aln2"} : os.st[p] = "open" }

\* the shell runs its next command, or exits after the last
ShStep ==
    /\ os.st["sh"] = "run"
    /\ LET s == ShScript(os.topo)
           k == os.k["sh"]
       IN  IF k = Len(s)
           THEN os' = [os EXCEPT !.st["sh"] = "exited"]
           ELSE IF s[k + 1].op = "fork"
           THEN os' = [os EXCEPT !.st[s[k + 1].p] = "open",
                                 !.k["sh"] = k + 1]
           ELSE /\ os.st[s[k + 1].p] = "exited"
                /\ os' = [os EXCEPT !.k["sh"] = k + 1]

\* cat {0}: copies index_pipe to stdout until end of file
CatIStep ==
    /\ os.st["catI"] = "run"
    /\ IF os.ch["I"] # <<>>
       THEN /\ Room("P")
            /\ os' = [os EXCEPT !.ch["I"] = Tail(@),
                                !.ch["P"] = Append(@, Head(os.ch["I"]))]
       ELSE /\ os.st["idx"] = "exited"
            /\ os' = [os EXCEPT !.st["catI"] = "exited"]

\* samtools index {1} {0}: reads bam_pipe to end of file, then writes the
\* index to index_pipe
IdxStep ==
    \/ /\ os.st["idx"] = "read"
       /\ IF os.ch["B"] # <<>>
          THEN os' = [os EXCEPT !.ch["B"] = Tail(@),
                                !.acc["idx"] = Append(@, Head(os.ch["B"]))]
          ELSE /\ os.st["catB"] = "exited"
               /\ os' = [os EXCEPT !.st["idx"] = "open2",
                                   !.acc["idx"] = IndexTool(@)]
    \/ /\ os.st["idx"] = "write"
       /\ IF os.acc["idx"] # <<>>
          THEN /\ Room("I")
               /\ os' = [os EXCEPT !.acc["idx"] = Tail(@),
                                   !.ch["I"] = Append(@, Head(os.acc["idx"]))]
          ELSE os' = [os EXCEPT !.st["idx"] = "exited"]

\* cat > {1}: copies stdin to bam_pipe until end of file
CatBStep ==
    /\ os.st["catB"] = "run"
    /\ IF os.ch["stdin"] # <<>>
       THEN /\ Room("B")
            /\ os' = [os EXCEPT !.ch["stdin"] = Tail(@),
                                !.ch["B"] = Append(@, Head(os.ch["stdin"]))]
       ELSE /\ os.closed
            /\ os' = [os EXCEPT !.st["catB"] = "exited"]

\* bwa aln ... > {j}: writes one record per read of its file, then exits
AlnStep(p) ==
    /\ os.st[p] = "run"
    /\ IF os.k[p] < Len(os.src)
       THEN /\ Room(IF p = "aln1" THEN "A1" ELSE "A2")
            /\ os' = [os EXCEPT
                        !.k[p] = @ + 1,
                        !.ch[IF p = "aln1" THEN "A1" ELSE "A2"] =
                            Append(@, [read |-> os.k[p] + 1,
                                       length |-> os.src[os.k[p] + 1]])]
       ELSE os' = [os EXCEPT !.st[p] = "exited"]

\* the FIFO bwa sampe / bwa samse reads its next record from: sampe takes
\* the records of the two mates in turn
SamReadsFrom ==
    IF os.topo = "paired" /\ os.k["sam"] % 2 = 1 THEN "A2" ELSE "A1"

\* the number of records bwa sampe / bwa samse reads: one per read of each
\* raw reads file
SamRecords == IF os.topo = "paired" THEN 2 * Len(os.src) ELSE Len(os.src)

\* bwa sampe / bwa samse: reads the records it needs, writes one alignment
\* per read (pair) to stdout, and exits
SamStep ==
    /\ os.st["sam"] = "run"
    /\ IF os.acc["sam"] # <<>>
       THEN /\ Room("P")
            /\ os' = [os EXCEPT !.acc["sam"] = Tail(@),
                                !.ch["P"] = Append(@, Head(os.acc["sam"]))]
       ELSE IF os.k["sam"] < SamRecords
       THEN /\ os.ch[SamReadsFrom] # <<>>
            /\ os' = [os EXCEPT
                        !.ch[SamReadsFrom] = Tail(@),
                        !.k["sam"] = @ + 1,
                        !.acc["sam"] =
                            IF os.topo = "paired" /\ os.k["sam"] % 2 = 0
                            THEN <<>>
                            ELSE <<AlignedRead(
                                    Head(os.ch[SamReadsFrom]).length)>>]
       ELSE os' = [os EXCEPT !.st["sam"] = "exited"]

\* samtools view -q: copies the alignments that pass from stdin (P) to
\* stdout (Q) until end of file
ViewStep ==
    /\ os.st["view"] = "run"
    /\ IF os.ch["P"] # <<>>
       THEN IF Head(os.ch["P"]).mapq >= os.q
            THEN /\ Room("Q")
                 /\ os' = [os EXCEPT !.ch["P"] = Tail(@),
                                     !.ch["Q"] = Append(@, Head(os.ch["P"]))]
            ELSE os' = [os EXCEPT !.ch["P"] = Tail(@)]
       ELSE /\ PHolders = {}
            /\ os' = [os EXCEPT !.st["view"] = "exited"]

\* a step of the external process p
ProcStep(p) ==
    /\ \/ OpenStep(p)
       \/ p = "sh" /\ ShStep
       \/ p = "catI" /\ CatIStep
       \/ p = "idx" /\ IdxStep
       \/ p = "catB" /\ CatBStep
       \/ p \in {"aln1", "aln2"} /\ AlnStep(p)
       \/ p = "sam" /\ SamStep
       \/ p = "view" /\ ViewStep
    /\ UNCHANGED <<objs, disk, last, sorted_before, replaced_since_sort, nops, mrl>>

\* the sorted buffers samtools_index is run on
PipeBams ==
    { [k \in 1..n |-> [pos |-> IF k = 1 THEN 1 ELSE 2, mapq |-> 30,
                       flag |-> 0]] : n \in 0..MaxItems }

\* the raw reads files bwa_aln is run on: the lengths of their reads
PipeReads ==
    { [k \in 1..n |-> IF k % 2 = 1 THEN 70 ELSE 71] : n \in 0..MaxItems }

\* samtools_index enters its with blocks: the two FIFOs exist
BeginIndex(b) ==
    /\ os.pc = "idle"
    /\ os' = [Idle EXCEPT !.topo = "index", !.pc = "popen", !.src = b,
                          !.fifos = {"B", "I"}]

\* BWA.bwa_aln enters its with blocks: sai_pipe_0 and sai_pipe_1 for a pair
\* of raw reads files, sai_pipe for one file
BeginBwaAln(topo, reads, mapping_quality) ==
    /\ os.pc = "idle"
    /\ os' = [Idle EXCEPT !.topo = topo, !.pc = "popen", !.src = reads,
                          !.q = mapping_quality,
                          !.fifos = IF topo = "paired" THEN {"A1", "A2"}
                                    ELSE {"A1"}]

\* subprocess.Popen(('sh', '-c', ...)): the shell is running
PopenSh ==
    /\ os.pc = "popen"
    /\ os' = [os EXCEPT !.st["sh"] = "run",
                        !.pc = IF os.topo = "index" THEN "communicate"
                               ELSE "popen2"]

\* subprocess.Popen(('samtools', 'view', ...), stdin=bwa_aln_sampe.stdout)
PopenView ==
    /\ os.pc = "popen2"
    /\ os' = [os EXCEPT !.st["view"] = "run", !.pc = "communicate"]

\* the pipe communicate reads, and the processes that can still write to it
ReadsFrom == IF os.topo = "index" THEN "P" ELSE "Q"
Writers == IF os.topo = "index" THEN PHolders
           ELSE { p \in {"view"} : os.st[p] # "exited" }

\* communicate(input=...): writes the input to stdin and closes it while it
\* reads stdout to end of file
Communicate ==
    /\ os.pc = "communicate"
    /\ \/ /\ os.topo = "index" /\ os.sent < Len(os.src) /\ Room("stdin")
          /\ os' = [os EXCEPT !.sent = @ + 1,
                              !.ch["stdin"] = Append(@, os.src[os.sent + 1])]
       \/ /\ os.topo = "index" /\ os.sent = Len(os.src) /\ ~os.closed
          /\ os' = [os EXCEPT !.closed = TRUE]
       \/ /\ os.ch[ReadsFrom] # <<>>
          /\ os' = [os EXCEPT !.ch[ReadsFrom] = Tail(@),
                              !.got = Append(@, Head(os.ch[ReadsFrom]))]
       \/ /\ os.ch[ReadsFrom] = <<>> /\ Writers = {}
          /\ os.topo = "index" => os.closed
          /\ os' = [os EXCEPT !.pc = "wait"]

\* Popen.__exit__ waits for the shell; then the with blocks of the FIFOs are
\* left, which removes them, and the method returns
WaitAndReturn ==
    /\ os.pc = "wait"
    /\ os.st["sh"] = "exited"
    /\ os' = [os EXCEPT !.pc = "returned", !.fifos = {}]

\* a step of the calling method
CallerStep ==
    /\ \/ \E b \in PipeBams : BeginIndex(b)
       \/ \E topo \in {"single", "paired"}, reads \in PipeReads,
             q \in MappingQualities : BeginBwaAln(topo, reads, q)
       \/ PopenSh
       \/ PopenView
       \/ Communicate
       \/ WaitAndReturn
    /\ UNCHANGED <<objs, disk, last, sorted_before, replaced_since_sort, nops, mrl>>

NextPipes ==
    \/ CallerStep
    \/ \E p \in Procs : ProcStep(p)

SpecPipes == Init /\ [][NextPipes]_vars

\* the same under fair scheduling: a process that can take a step is not
\* held back forever
FairPipes ==
    /\ SpecPipes
    /\ WF_vars(CallerStep)
    /\ \A p \in Procs : WF_vars(ProcStep(p))

----------------------------------------------------------------------------
(* The claims *)

MergeOps == {"__add__", "__or__", "merge"}

\* a call failed: it raised, or an external process it ran exited non-zero
Failed(l) == l.err # "none" \/ \E k \in DOMAIN l.stages : l.stages[k].exit # 0

\* C1: samtools_index raises the not-sorted error if and only if no
\* samtools_sort call has returned on that object before it; once one has,
\* no later samtools_index raises it, whatever was called in between.
C1_IndexRaisesIffNeverSorted ==
    last.op = "samtools_index" =>
        (last.err = "NotSorted" <=> ~sorted_before[last.obj])

\* samtools_index ran on an object sorted earlier, with another buffer
\* replacement in between (the index is of a buffer no sort produced)
C1_Witness ==
    /\ last.op = "samtools_index" /\ last.err = "none"
    /\ last.stages[1].exit = 0
    /\ objs[1].index.v # IndexTool(SortTool(InFile))
    /\ objs[1].index.v # <<0>>

\* C2: a present index was generated from the current buffer (the index is
\* set absent whenever another operation replaces the buffer).
C2_IndexIsOfCurrentBuffer ==
    \A i \in ObjIds :
        Alive(i) /\ Truthy(objs[i].index) =>
            objs[i].index.v = IndexTool(objs[i].bam)

\* C3: a call that fails (raises, or runs a process that exits non-zero)
\* leaves the buffer at its last committed value.
C3_FailureKeepsBuffer ==
    [][\A i \in ObjIds :
        Alive(i) /\ Failed(last') => objs'[i].bam = objs[i].bam]_vars

\* C4: is_sorted is false on every new object (merged ones included), turns
\* true only by a samtools_sort that returns, and is never reset.
C4_SortedLatch ==
    [][\A i \in ObjIds :
        /\ (~Alive(i) /\ objs'[i] # NoObj) => ~objs'[i].is_sorted
        /\ (Alive(i) /\ objs[i].is_sorted) => objs'[i].is_sorted
        /\ (Alive(i) /\ ~objs[i].is_sorted /\ objs'[i].is_sorted) =>
                (last'.op = "samtools_sort" /\ last'.obj = i
                    /\ last'.err = "none")]_vars

\* a merge of sorted operands has produced an object that is not sorted
C4_Witness ==
    /\ last.op \in MergeOps
    /\ objs[last.arg[1]].is_sorted /\ objs[last.arg[2]].is_sorted
    /\ ~objs[last.obj].is_sorted

\* C5: samtools_sort with memory_limit < 5 raises the memory-limit error
\* without running the sort stage and changes nothing; with memory_limit >= 5
\* it runs the stage, stores the stage's output and sets is_sorted.
C5_SortMemoryFloor ==
    [][\A m \in MemoryLimits :
        samtools_sort(1, m) =>
            IF m < 5
            THEN /\ last'.err = "MemoryLimitError"
                 /\ last'.stages = <<>>
                 /\ objs' = objs
            ELSE /\ last'.err = "none"
                 /\ Len(last'.stages) = 1
                 /\ last'.stages[1].tool = "samtools sort"
                 /\ \E run \in Stage(SortTool(objs[1].bam)) :
                        /\ run.exit = last'.stages[1].exit
                        /\ objs' = [objs EXCEPT ![1].bam = run.out,
                                                ![1].is_sorted = TRUE]]_vars

\* a call below the floor has raised on an object an earlier call sorted
C5_Witness ==
    /\ last.op = "samtools_sort" /\ last.err = "MemoryLimitError"
    /\ objs[1].is_sorted /\ objs[1].bam = SortTool(InFile)

\* C6: a + b has the larger of the two mapping qualities, a | b the smaller,
\* and both have the smaller of the two process counts.
C6_MergeParameters ==
    last.op \in {"__add__", "__or__"} =>
        LET a == objs[last.arg[1]]
            b == objs[last.arg[2]]
            c == objs[last.obj]
        IN  /\ c.mapping_quality \in {a.mapping_quality, b.mapping_quality}
            /\ last.op = "__add__" =>
                    /\ c.mapping_quality >= a.mapping_quality
                    /\ c.mapping_quality >= b.mapping_quality
            /\ last.op = "__or__" =>
                    /\ c.mapping_quality <= a.mapping_quality
                    /\ c.mapping_quality <= b.mapping_quality
            /\ c.processes \in {a.processes, b.processes}
            /\ c.processes <= a.processes /\ c.processes <= b.processes

\* a + b where the operands differ in mapping quality and in processes
C6_Witness ==
    /\ last.op = "__add__"
    /\ objs[last.arg[1]].mapping_quality < objs[last.arg[2]].mapping_quality
    /\ objs[last.arg[1]].processes > objs[last.arg[2]].processes

\* C7: a merge creates a new object and leaves its operands (every existing
\* object) as they were, and a call on one object changes no other object.
C7_MergeLeavesOperands ==
    [][/\ last'.op \in MergeOps /\ last' # last => ~Alive(last'.obj)
       /\ \A i \in ObjIds :
            Alive(i) /\ (last'.op \in MergeOps \/ last'.obj # i) =>
                objs'[i] = objs[i]]_vars

\* the object a merge produced (the only ones holding two reads) has been
\* sorted after the merge
C7_Witness ==
    /\ last.op = "samtools_sort" /\ last.err = "none"
    /\ last.obj > 1
    /\ Len(objs[last.obj].bam) = 2

\* C8: after __exit__ on a self-cleaning object that has written to disk,
\* neither the recorded path nor that path with .bai exists, no error was
\* raised, and a second __exit__ raises nothing and changes nothing.
C8_ReleaseRemovesFiles ==
    (last.op = "__exit__" /\ objs[1].cleans_up_bam
        /\ Truthy(objs[1].bam_file_path)) =>
        LET path == objs[1].bam_file_path
            again1 == clean_up(disk, path)
            again2 == clean_up(again1.disk, PyStr(BaiPath(path)))
        IN  /\ last.err = "none"
            /\ ~IsFile(disk, path.v)
            /\ ~IsFile(disk, BaiPath(path))
            /\ again1.err = "none" /\ again2.err = "none"
            /\ again2.disk = disk

\* __exit__ ran on a self-cleaning object whose last write was to a.bam,
\* without an index, while the earlier b.txt and b.txt.bai are still there
C8_Witness ==
    /\ last.op = "__exit__" /\ objs[1].cleans_up_bam
    /\ objs[1].bam_file_path = PyStr(<<"a", "bam">>)
    /\ IsFile(disk, <<"b", "txt">>) /\ IsFile(disk, <<"b", "txt", "bai">>)

\* a step that creates an object from the path the previous call wrote to
WriteThenCreate ==
    /\ last.op = "write" /\ last.err = "none"
    /\ last'.op = "__init__" /\ last'.arg = last.arg

\* C9 as claimed, for a path with an alignment extension: write(path)
\* followed by creating a state from that path yields a state with the same
\* buffer and, if an index was written, the same index.
C9_RoundTrip ==
    [][(WriteThenCreate
            /\ file_format_from_extension(last.arg.v) \in {"sam", "bam"}) =>
        /\ last'.err = "none"
        /\ objs'[1].bam = objs[1].bam
        /\ Truthy(objs[1].index) => objs'[1].index = objs[1].index]_vars

\* C9 as amended: for a .sam or .bam path the new state's buffer is the
\* output of the quality filter, at the new state's mapping quality, on the
\* buffer written, and its index is absent; any other extension that is not
\* a raw-reads one is rejected and no state is created.
C9_RoundTripFiltered ==
    [][WriteThenCreate =>
        IF file_format_from_extension(last.arg.v) \in {"sam", "bam"}
        THEN /\ last'.err = "none"
             /\ objs'[1].index = None
             /\ \E run \in Stage(ViewTool(objs[1].bam,
                                           objs'[1].mapping_quality, {}, {})) :
                    /\ run.exit = last'.stages[1].exit
                    /\ objs'[1].bam = run.out
        ELSE /\ last'.err = "FileExtensionError"
             /\ objs' = objs]_vars

\* a state created from a written .bam file, the filter having exited 0,
\* whose buffer is not the buffer in the file
C9_Witness ==
    /\ last.op = "__init__" /\ last.err = "none" /\ last.arg # None
    /\ last.stages[1].exit = 0
    /\ IsFile(disk, last.arg.v)
    /\ objs[1].bam # disk[last.arg.v].data

RECURSIVE InsertInt(_, _)
InsertInt(x, s) ==
    IF s = <<>> THEN <<x>>
    ELSE IF x <= Head(s) THEN <<x>> \o s
    ELSE <<Head(s)>> \o InsertInt(x, Tail(s))

RECURSIVE SortInts(_)
SortInts(s) == IF s = <<>> THEN <<>> ELSE InsertInt(Head(s), SortInts(Tail(s)))

\* the median of a non-empty sample: the middle value of the sorted sample,
\* or the mean of its two middle values
MedianOf(sample) ==
    LET sorted == SortInts(sample)
        n == Len(sorted)
    IN  IF n % 2 = 1 THEN Number(sorted[(n + 1) \div 2], 1)
        ELSE Number(sorted[n \div 2] + sorted[n \div 2 + 1], 2)

SameNumber(x, y) == x.den # 0 /\ y.den # 0 /\ x.num * y.den = y.num * x.den

RECURSIVE SampleOf(_, _)
\* the read lengths sampled from the files: the first number_of_reads of each
SampleOf(files, number_of_reads) ==
    IF files = <<>> THEN <<>>
    ELSE islice(Head(files), number_of_reads)
            \o SampleOf(Tail(files), number_of_reads)

\* C10: for every non-empty sample, from one file or from both files of a
\* pair, get_median_read_length returns the median of the sampled lengths.
C10_ReturnsMedian ==
    (mrl.phase \in {"returned", "raised"}
        /\ SampleOf(mrl.files, mrl.number_of_reads) # <<>>) =>
        /\ mrl.phase = "returned"
        /\ SameNumber(mrl.median,
                      MedianOf(SampleOf(mrl.files, mrl.number_of_reads)))

\* what holds of get_median_read_length: a value it returns is the median
\* of the sampled lengths
MedianWhenReturned ==
    mrl.phase = "returned" =>
        SameNumber(mrl.median,
                   MedianOf(SampleOf(mrl.files, mrl.number_of_reads)))

\* C11: a pinned algorithm ('aln' or 'mem') runs that strategy and samples no
\* read lengths; otherwise exactly one strategy runs, bwa_aln when the median
\* read length is at most the threshold and bwa_mem when it is above it.
C11_Dispatch ==
    last.op = "BWA.__call__" =>
        /\ last.arg.algorithm \in {"aln", "mem"} =>
                /\ mrl.phase = "idle"
                /\ last.err = "none"
                /\ last.stages = <<"bwa_" \o last.arg.algorithm>>
        /\ (last.arg.algorithm \notin {"aln", "mem"} /\ last.err = "none") =>
                /\ mrl.phase = "returned"
                /\ Len(last.stages) = 1
                /\ last.stages[1] \in {"bwa_aln", "bwa_mem"}
                /\ last.stages[1] = "bwa_aln" <=>
                        mrl.median.num
                            <= last.arg.algorithm_switch_bp * mrl.median.den
                /\ last.stages[1] = "bwa_mem" <=>
                        mrl.median.num
                            > last.arg.algorithm_switch_bp * mrl.median.den

\* the median is exactly the threshold 70 and bwa_aln was run
C11_Witness ==
    /\ last.op = "BWA.__call__" /\ last.err = "none"
    /\ last.arg.algorithm = "None" /\ last.arg.algorithm_switch_bp = 70
    /\ mrl.phase = "returned" /\ mrl.median = Number(70, 1)
    /\ last.stages = <<"bwa_aln">>

\* C12: remove_duplicates raises and changes nothing when neither the
\* argument nor the object's default names a deduplicator; otherwise it calls
\* exactly one deduplicator, the argument if given and else the default, with
\* the current buffer, and stores what that call returns as the buffer.
C12_RemoveDuplicates ==
    [][\A d \in Dedduppers \cup {"Custom"} :
        remove_duplicates(1, d) =>
            IF d = "None" /\ objs[1].dedupper = "None"
            THEN /\ last'.err = "NoDedupper"
                 /\ last'.stages = <<>>
                 /\ objs' = objs
            ELSE LET chosen == IF d = "None" THEN objs[1].dedupper ELSE d
                 IN  /\ Len(last'.stages) = 1
                     /\ last'.stages[1].tool = chosen
                     /\ last'.arg = PyBytes(objs[1].bam)
                     /\ last'.err # "NoDedupper"
                     /\ last'.err # "none" => objs' = objs
                     /\ last'.err = "none" =>
                            \E run \in DedupperRuns(chosen, objs[1].bam) :
                                /\ run.exit = last'.stages[1].exit
                                /\ objs' = [objs EXCEPT ![1].bam = run.out]]_vars

\* the caller's deduplicator was used on an object whose default is the
\* shipped one, and it removed a read
C12_Witness ==
    /\ last.op = "remove_duplicates" /\ last.err = "none"
    /\ last.stages[1] = [tool |-> "Custom", exit |-> 0]
    /\ objs[1].dedupper = "RemoveDuplicates"
    /\ Len(objs[1].bam) > 0 /\ Len(objs[1].bam) < Len(last.arg.v)

\* a tool exited non-zero although it was handed a whole alignment
Crashed(l) ==
    \E k \in DOMAIN l.stages :
        l.stages[k].exit # 0 /\ l.stages[k].found = "buffer"

\* the number of reads of b that satisfy P
CountReads(b, P(_)) == Cardinality({ k \in DOMAIN b : P(b[k]) })

\* M / T for the call recorded in l on the buffer b
Matching(l, b) ==
    IF l.op = "percent_blacklisted"
    THEN CountReads(b, LAMBDA r : r.pos \in BedRegion(<<"blacklist", "bed">>))
    ELSE CountReads(b, LAMBDA r : ContigOf(r) = <<"chr", "M">>)

\* C13: on an indexed state, and no tool crashing, percent_blacklisted and
\* percent_mitochondrial return M / T, T the number of reads of the buffer
\* and M the number in the regions or on chrM, and raise the division error
\* when T is zero.
C13_Ratio ==
    (/\ last.op \in {"percent_blacklisted", "percent_mitochondrial"}
     /\ last.err \notin {"RuntimeError", "OSError"}
     /\ ~Crashed(last)) =>
        LET b == objs[last.obj].bam
        IN  IF Len(b) = 0 THEN last.err = "ZeroDivisionError"
            ELSE /\ last.err = "none"
                 /\ last.arg.num * Len(b) = Matching(last, b) * last.arg.den
                 /\ last.arg.den # 0

\* what holds: C13 for percent_blacklisted, which feeds the buffer to its
\* tools through standard input
PercentBlacklistedRatio ==
    last.op = "percent_blacklisted" => C13_Ratio

\* what holds: C13 for percent_mitochondrial when the temporary file held
\* the buffer
PercentMitochondrialRatio ==
    (/\ last.op = "percent_mitochondrial"
     /\ \A k \in DOMAIN last.stages : last.stages[k].found = "buffer") =>
        C13_Ratio

\* the kinds of input parse_input tells apart
IsPair(input) == input.t \in {"tuple", "list"} /\ Len(input.v) = 2
IsRawPath(input) ==
    input.t = "str" /\ file_format_from_extension(input.v) \in {"fasta", "fastq"}
IsAlignedPath(input) ==
    input.t = "str" /\ file_format_from_extension(input.v) \in {"sam", "bam"}

\* C14: creation dispatches on the kind of the input.  Bytes are adopted as
\* the buffer with no stage run; a tuple or list of length 2 and a path to
\* fasta/fastq reads go to the aligner (the given one, BWA by default) and
\* what it returns is adopted; a path to sam/bam data goes once through
\* samtools view at the configured mapping quality and the result is
\* adopted; every other input raises and no object comes to be.
C14_CreationDispatch ==
    [][\A input \in CreateInputs, q \in MappingQualities, a \in Aligners :
        CreateWith(1, input, q, a, "None", 1, FALSE) =>
            IF input.t = "bytes"
            THEN /\ last'.err = "none" /\ last'.stages = <<>>
                 /\ objs'[1].bam = input.v
            ELSE IF IsPair(input) \/ IsRawPath(input)
            THEN /\ Len(last'.stages) = 1
                 /\ last'.stages[1].tool = (IF a = "None" THEN "BWA" ELSE a)
                 /\ last'.err = "none" =>
                        /\ objs'[1].bam = last'.stages[1].returned
                        /\ objs'[1].mapping_quality = q
                        /\ \A k \in 1..Len(objs'[1].bam) :
                                objs'[1].bam[k].mapq >= q
                 /\ last'.err # "none" => objs' = objs
            ELSE IF IsAlignedPath(input)
            THEN /\ last'.err = "none"
                 /\ Len(last'.stages) = 1
                 /\ last'.stages[1].tool = "samtools view"
                 /\ objs'[1].mapping_quality = q
                 /\ \E run \in Stage(IF IsFile(disk, input.v)
                                      THEN ViewTool(disk[input.v].data, q,
                                                    {}, {})
                                      ELSE <<>>) :
                        /\ objs'[1].bam = run.out
                        /\ last'.stages[1].exit = run.exit
            ELSE /\ last'.err # "none" /\ last'.stages = <<>>
                 /\ objs' = objs
      ]_vars

\* a pair of raw read files was aligned and the alignment adopted
C14_Witness ==
    /\ last.op = "__init__" /\ last.err = "none"
    /\ last.arg.t = "tuple" /\ Len(last.arg.v) = 2
    /\ Alive(1) /\ Len(objs[1].bam) > 1

\* the temporary file pairs a call can create
TempPairs == TempNames \cup { t \o <<"bai">> : t \in TempNames }

\* C15: whenever restrict_chromosomes returns or raises, no temporary
\* alignment file and no .bai companion that the call created is left on
\* disk.
C15_TempFilesDiscarded ==
    [][last'.op = "restrict_chromosomes" =>
            \A p \in TempPairs : IsFile(disk', p) => IsFile(disk, p)]_vars

StartsWithChr(c) == Len(c) > 0 /\ c[1] = "chr"
HasChrChr(c) == \E k \in 1..(Len(c) - 1) : c[k] = "chr" /\ c[k + 1] = "chr"

\* the region the claim expects for the name c
Prefixed(c) == IF StartsWithChr(c) THEN c ELSE <<"chr">> \o c

\* C16: for every name c, restrict_chromosomes passes 'chr' + c to the filter
\* stage when c does not start with 'chr' and c itself when it does, and
\* normalizing a normalized name changes nothing.
C16_Normalization ==
    [][\A c \in Names :
        (restrict_chromosomes(1, <<c>>) /\ last'.err # "RuntimeError") =>
            /\ last'.arg = <<Prefixed(c)>>
            /\ Normalize(last'.arg[1]) = last'.arg[1]]_vars

\* the same for the names in which 'chrchr' does not occur
NormalizationWithoutChrChr ==
    \A c \in Names :
        ~HasChrChr(c) =>
            /\ Normalize(c) = Prefixed(c)
            /\ Normalize(Normalize(c)) = Normalize(c)

\* the bit value the specification gives each predicate
BitOf(p) ==
    CASE p = "remove_unpaired" -> 1
      [] p = "remove_improperly_paired" -> 2
      [] p = "remove_unmapped" -> 4
      [] p = "remove_mate_unmapped" -> 8
      [] p = "remove_not_primary" -> 256
      [] p = "remove_fails_quality_check" -> 512
      [] p = "remove_duplicate" -> 1024
      [] p = "remove_supplementary" -> 2048

\* what a read must be to survive the predicate p
Survives(r, p) ==
    IF p \in {"remove_unpaired", "remove_improperly_paired"}
    THEN HasBit(r.flag, BitOf(p))
    ELSE ~HasBit(r.flag, BitOf(p))

\* C20: for every combination of the eight predicates of samtools_view the
\* command requests exactly the bits of the predicates that are on (1 and 2
\* as required bits, 4, 8, 256, 512, 1024 and 2048 as excluded bits), ORed
\* together, and no bit of a predicate that is off; the reads that come back
\* are those every enabled predicate lets through.
C20_FlagBits ==
    (last.op = "samtools_view" /\ last.arg # None) =>
        LET on == last.arg.enabled
            command == last.arg.command
        IN  /\ FlagMask(command, "-f")
                    = { BitOf(p) : p \in on \cap {"remove_unpaired",
                                                  "remove_improperly_paired"} }
            /\ FlagMask(command, "-F")
                    = { BitOf(p) : p \in on \ {"remove_unpaired",
                                                "remove_improperly_paired"} }
            /\ \A k \in 1..Len(command) : command[k].opt \in {"-f", "-F"}
            /\ last.stages[1].exit = 0 =>
                    objs[1].bam = SelectSeq(ViewBam, LAMBDA r :
                                        \A p \in on : Survives(r, p))

\* remove_duplicate and remove_supplementary together took exactly the two
\* reads with those bits out of the buffer
C20_Witness ==
    /\ last.op = "samtools_view" /\ last.arg # None
    /\ last.arg.enabled = {"remove_duplicate", "remove_supplementary"}
    /\ last.stages[1].exit = 0
    /\ Len(objs[1].bam) = Len(ViewBam) - 2

\* what the pipeline should hand back: the index of the buffer, or the
\* alignments of the reads that pass the quality filter
PipeExpected ==
    IF os.topo = "index" THEN IndexTool(os.src)
    ELSE ViewTool([k \in 1..Len(os.src) |-> AlignedRead(os.src[k])],
                  os.q, {}, {})

\* the processes of each topology
ProcsOf(topo) ==
    IF topo = "index" THEN {"sh", "catI", "idx", "catB"}
    ELSE IF topo = "paired" THEN {"sh", "sam", "aln1", "aln2", "view"}
    ELSE {"sh", "sam", "aln1", "view"}

AllExited == \A p \in ProcsOf(os.topo) : os.st[p] = "exited"

\* C17: in the paired topology of bwa_aln (bwa sampe reading both FIFOs, one
\* bwa aln writing each, sampe piped into samtools view), under fair
\* scheduling and with pipes of bounded capacity, no process blocks forever:
\* every process terminates and bwa_aln returns, and what it returns is the
\* output of the filter.
C17_PairedTerminates ==
    /\ [](os.topo = "paired" /\ os.pc = "returned" => os.got = PipeExpected)
    /\ (os.topo = "paired") ~> (os.pc = "returned" /\ AllExited)

\* a paired run on more reads than a FIFO holds has returned alignments
C17_Witness ==
    /\ os.topo = "paired" /\ os.pc = "returned" /\ AllExited
    /\ Len(os.src) > PipeCapacity
    /\ os.got # <<>> /\ os.got = PipeExpected

\* C18: when samtools_index or bwa_aln (single-end or paired) returns, and
\* so when the FIFOs of the topology are removed, every external process
\* the call started has terminated.
C18_AllTerminatedAtReturn ==
    os.pc = "returned" => \A p \in Procs : os.st[p] \in {"none", "exited"}

\* the same for samtools_index and single-end bwa_aln only
IndexAndSingleTerminatedAtReturn ==
    (os.pc = "returned" /\ os.topo \in {"index", "single"}) =>
        \A p \in Procs : os.st[p] \in {"none", "exited"}

\* the three legs of the index command are forked by the one shell command,
\* each before the shell waits for anything
LegsInOneCommand ==
    \A leg \in {"catI", "idx", "catB"} :
        \E k \in 1..Len(ShScript("index")) :
            /\ ShScript("index")[k] = [op |-> "fork", p |-> leg]
            /\ \A j \in 1..k : ShScript("index")[j].op = "fork"

C21_SortedWhenIndexed ==
    (last.op = "samtools_index" /\ last.err # "NotSorted") =>
        /\ sorted_before[last.obj]
        /\ ~replaced_since_sort[last.obj]

ReadOnlyOps == {"samtools_mpileup", "percent_blacklisted",
                "percent_mitochondrial"}

\* C22: samtools_mpileup, percent_blacklisted and percent_mitochondrial leave
\* the object as it was, whether they return or raise: the buffer, the
\* index, is_sorted, mapping_quality, the recorded write path and
\* cleans_up_bam are the same after the call as before.
C22_ReadOnlyFrame ==
    [][last'.op \in ReadOnlyOps =>
        /\ objs'[1].bam = objs[1].bam
        /\ objs'[1].index = objs[1].index
        /\ objs'[1].is_sorted = objs[1].is_sorted
        /\ objs'[1].mapping_quality = objs[1].mapping_quality
        /\ objs'[1].bam_file_path = objs[1].bam_file_path
        /\ objs'[1].cleans_up_bam = objs[1].cleans_up_bam]_vars

\* samtools_mpileup returned a pileup of a buffer that is still there
C22_Witness ==
    /\ last.op = "samtools_mpileup" /\ last.err = "none"
    /\ last.arg.v # <<>> /\ last.stages[1].exit = 0
    /\ Alive(1) /\ objs[1].bam # <<>> /\ objs[1].bam # last.arg.v

\* the object has no index: it was never indexed, or samtools index gave
\* nothing
IndexAbsent(o) == o.index = None \/ o.index = PyBytes(<<>>)

\* C23: restrict_chromosomes and percent_mitochondrial raise the error about
\* the missing index exactly when the index is absent, and then no
\* temporary file has been created, no stage has been started and the
\* buffer is what it was.
C23_IndexGate ==
    [][last'.op \in {"restrict_chromosomes", "percent_mitochondrial"} =>
        /\ last'.err = "RuntimeError" <=> IndexAbsent(objs[1])
        /\ last'.err = "RuntimeError" =>
                /\ disk' = disk
                /\ last'.stages = <<>>
                /\ objs' = objs]_vars

\* restrict_chromosomes was refused on a sorted object whose index is empty
C23_Witness ==
    /\ last.op = "restrict_chromosomes" /\ last.err = "RuntimeError"
    /\ Alive(1) /\ objs[1].is_sorted /\ objs[1].index = PyBytes(<<>>)
    /\ objs[1].bam # <<>>

\* C24: RemoveDuplicates hands the buffer it is called with to samtools
\* view: what remove_duplicates with RemoveDuplicates leaves as the buffer
\* is the output of the tool on the buffer the object had.
C24_AttachesBuffer ==
    (/\ last.op = "remove_duplicates" /\ last.err = "none"
     /\ last.stages[1].tool = "RemoveDuplicates"
     /\ last.stages[1].exit = 0) =>
        objs[last.obj].bam
            = ViewTool(last.arg.v, 0, {}, {FlagDuplicate})

\* C25: __exit__ removes no file but the recorded write path and that
\* path's .bai; on an object that is not self-cleaning, or that has no
\* recorded write path, it removes nothing, whatever files there are.
C25_ExitRemovesOnlyItsFiles ==
    [][last'.op = "__exit__" =>
        \A p \in Files :
            (IsFile(disk, p) /\ ~IsFile(disk', p)) =>
                /\ objs[1].cleans_up_bam
                /\ objs[1].bam_file_path # None
                /\ p \in {objs[1].bam_file_path.v,
                           objs[1].bam_file_path.v \o <<"bai">>}]_vars

\* C26: after write(path), a file path + '.bai' that exists holds an index
\* generated from exactly the buffer stored at path.
C26_BaiMatchesBam ==
    (last.op = "write" /\ last.err = "none") =>
        (IsFile(disk, last.arg.v \o <<"bai">>) =>
            disk[last.arg.v \o <<"bai">>].data
                = IndexTool(disk[last.arg.v].data))

\* C27: get_median_read_length raises 'No reads in input file' exactly when
\* the sample over all the files is empty; for a pair of files of which at
\* least one holds a read it returns the median of the combined sample,
\* whichever file is the empty one.
C27_RaisesIffEmpty ==
    mrl.phase \in {"returned", "raised"} =>
        LET sample == SampleOf(mrl.files, mrl.number_of_reads)
        IN  /\ mrl.phase = "raised" <=> sample = <<>>
            /\ (Len(mrl.files) = 2 /\ sample # <<>>) =>
                    SameNumber(mrl.median, MedianOf(sample))

\* C28: creation from raw reads works with each shipped aligner: BWA or
\* Bowtie2 is called with arguments it accepts, so the call itself does not
\* fail, and the bytes it returns become the buffer.
C28_AlignersInvocable ==
    (/\ last.op = "__init__" /\ Len(last.stages) = 1
     /\ last.stages[1].tool \in {"BWA", "Bowtie2"}) =>
        /\ last.err # "TypeError"
        /\ last.err = "none" => objs[1].bam = last.stages[1].returned

\* C29: when a pair of raw reads files is aligned with bwa aln, the thread
\* count passed to each bwa aln, floor(processes / 2), is at least 1 for
\* every processes >= 1.
C29_ThreadsAtLeastOne ==
    (/\ last.op = "__init__" /\ last.err = "none" /\ Len(last.stages) = 1
     /\ last.arg.t \in {"tuple", "list"}
     /\ last.stages[1].algorithm = "aln"
     /\ objs[1].processes >= 1) =>
        /\ last.stages[1].threads = objs[1].processes \div 2
        /\ last.stages[1].threads >= 1

====
